---- MODULE Spec2Model ----
(***************************************************************************)
(* Model of the conversational gateway of the financial-analysis assistant *)
(* (src/src/core/chat_connector.py) together with the part of the chat     *)
(* orchestration (src/src/rag/analyst_chat.py) that decides what           *)
(* ChatConnector.process_message returns.                                  *)
(*                                                                         *)
(* Time is a discrete clock `now`; time.time() and datetime.now() both     *)
(* read it.  One tick is an arbitrary unit: window_seconds, BlockDuration  *)
(* and session_timeout are durations counted in ticks.  Every public       *)
(* method is one action: the handler runs from its call to its return, and *)
(* the clock does not advance inside it.  The validator is taken to load   *)
(* and to return a verdict for every message.                              *)
(***************************************************************************)
EXTENDS Integers, Sequences, FiniteSets, TLC

\* ---------------------------------------------------------------- bounds
\* Last value of the clock.
MaxTime == 5

\* Number of calls of the public methods in one run with one caller.
MaxCalls == 4

\* Number of calls of the public methods in one run with two callers.
MaxCallsTwo == 3

\* Number of calls of the public methods in one run with two threads.
MaxCallsThreads == 3

\* Last value of the clock in a run with two threads (less than
\* session_timeout).
MaxTimeThreads == 2

\* ---------------------------------------------------------- configuration
\* The connector's configuration keeps the order of the defaults: window
\* (60 s) < block (10 min) < session timeout (60 min).

\* RateLimiter.max_requests (rate_limit_requests, 30 by default), scaled.
max_requests == 2

\* RateLimiter.window_seconds (rate_limit_window, 60 by default), in ticks.
window_seconds == 2

\* ChatConnector.max_warnings (default of the constructor).
max_warnings == 3

\* timedelta(minutes=10) of process_message, in ticks.
BlockDuration == 3

\* ChatConnector.session_timeout (session_timeout_minutes, 60 by default:
\* longer than the block, as the connector of get_chat_connector has it), in
\* ticks.
session_timeout == 4

\* ---------------------------------------------------------------- values
\* The session ids (the keys of _sessions and _requests, and the pool
\* _generate_session_id draws from).
SessionIds == {"s1", "s2"}

\* The elements of a list.
Range(s) == {s[i] : i \in 1..Len(s)}

\* Optional[datetime] = None (blocked_until of a session never blocked).
NoTime == -1

\* session_id = None (an anonymous caller); "" is falsy in Python too.
NoId == ""

\* None, for a report, a report type or an error code.
None == "None"

\* A key of _sessions that holds no ChatSession.
Absent == [absent |-> TRUE]

\* An empty dict (metadata, context).
EmptyDict == [k \in {} |-> 0]

\* ------------------------------------------------------------- variables
VARIABLES
    now,              \* the clock read by time.time() / datetime.now()
    sessions,         \* ChatConnector._sessions: id -> ChatSession or Absent
    requests,         \* RateLimiter._requests: id -> list of timestamps
    ids,              \* the session ids the callers of this run pass
    calls_left,       \* how many more calls of public methods the run makes
    op,               \* the last operation called: its name and arguments
    steps,            \* the stages the last process_message ran (or the
                      \* lines the last get_or_create_session logged)
    ret,              \* what the last operation returned
    conversation_history,
                      \* AnalystChatbot.conversation_history of the one
                      \* chatbot the connector holds: the turns, each tagged
                      \* with the session whose call appended it
    prompt,           \* the messages list the last operation built for the
                      \* first model call (empty when it built none)
    threads,          \* each thread's position in the method it runs, and
                      \* its local variables
    locks,            \* who holds ChatConnector._lock and RateLimiter._lock
    completed         \* per session id: how many calls that failed
                      \* validation, and how many that were answered, have
                      \* returned; the times is_allowed granted a request

vars == <<now, sessions, requests, ids, calls_left, op, steps, ret,
          conversation_history, prompt, threads, locks, completed>>

\* The chatbot's state.
chat_vars == <<conversation_history, prompt>>

\* The state of the threads.
thread_vars == <<threads, locks, completed>>

\* ------------------------------------------------------------ ChatSession
\* ChatSession(session_id=new_id) at time t: the dataclass defaults.
ChatSession(t) ==
    [last_activity |-> t, message_count |-> 0, blocked_until |-> NoTime,
     context |-> EmptyDict, warnings |-> 0]

\* ChatResponse(...) with the dataclass defaults for the fields not given.
ChatResponse(success, content, error_code, metadata) ==
    [success |-> success, content |-> content, report |-> None,
     report_type |-> None, error_code |-> error_code, metadata |-> metadata]

\* ------------------------------------------------------------ RateLimiter
\* The list comprehension of is_allowed: the timestamps still in the window.
InWindow(list, t) == SelectSeq(list, LAMBDA x : x > t - window_seconds)

\* is_allowed recording the request before it decides: a denied request is
\* recorded too.
is_allowed_records_denied(reqs, sid, t) ==
    LET pruned == InWindow(reqs[sid], t)
        current_count == Len(pruned)
    IN  [allowed |-> current_count < max_requests,
         remaining |-> IF current_count < max_requests
                       THEN max_requests - current_count - 1 ELSE 0,
         requests |-> [reqs EXCEPT ![sid] = Append(pruned, t)]]

\* RateLimiter.is_allowed(session_id) at time t.  Returns the pair it
\* returns and the _requests it leaves.
is_allowed(reqs, sid, t) ==
    LET pruned == InWindow(reqs[sid], t)
        current_count == Len(pruned)
        remaining == IF max_requests - current_count > 0
                     THEN max_requests - current_count ELSE 0
    IN  IF current_count >= max_requests
        THEN [allowed |-> FALSE, remaining |-> 0,
              requests |-> [reqs EXCEPT ![sid] = pruned]]
        ELSE [allowed |-> TRUE, remaining |-> remaining - 1,
              requests |-> [reqs EXCEPT ![sid] = Append(pruned, t)]]

\* ----------------------------------------------------------- SessionStore
\* now - session.last_activity > self.session_timeout
Expired(s, t) == t - s.last_activity > session_timeout

\* get_or_create_session refreshing an expired session instead of replacing
\* it.
get_or_create_session_keeps_stale(sess, sid, new_id, t) ==
    IF sid # NoId /\ sess[sid] # Absent
    THEN [id |-> sid,
          log |-> IF Expired(sess[sid], t)
                  THEN <<"Session expired", "New session created">> ELSE <<>>,
          sessions |-> [sess EXCEPT ![sid].last_activity = t]]
    ELSE LET id == IF sid # NoId THEN sid ELSE new_id
         IN  [id |-> id, log |-> <<"New session created">>,
              sessions |-> [sess EXCEPT ![id] = ChatSession(t)]]

\* ChatConnector.get_or_create_session(session_id) at time t.  sid is NoId
\* for an anonymous caller, and new_id is then the id _generate_session_id
\* returns.  Returns the session's id, the _sessions it leaves and the lines
\* it logs.
get_or_create_session(sess, sid, new_id, t) ==
    IF sid # NoId /\ sess[sid] # Absent /\ ~Expired(sess[sid], t)
    THEN [id |-> sid, log |-> <<>>,
          sessions |-> [sess EXCEPT ![sid].last_activity = t]]
    ELSE LET id == IF sid # NoId THEN sid ELSE new_id
         IN  [id |-> id,
              log |-> IF sid # NoId /\ sess[sid] # Absent
                      THEN <<"Session expired", "New session created">>
                      ELSE <<"New session created">>,
              sessions |-> [sess EXCEPT ![id] = ChatSession(t)]]

\* -------------------------------------------------------- InputValidator
\* The messages callers send: one the validator accepts, one it rejects.
Messages == {"question", "injection"}

\* validator.validate(message): {is_valid, sanitized_input, threat_level,
\* message}.  A rejection carries the validator's explanation.
validate(message) ==
    IF message = "injection"
    THEN [is_valid |-> FALSE, sanitized_input |-> "", threat_level |-> "high",
          message |-> <<"rejected: ", "injection">>]
    ELSE [is_valid |-> TRUE, sanitized_input |-> message,
          threat_level |-> "safe", message |-> <<>>]

\* --------------------------------------------------------- AnalystChatbot
\* What the collaborators of one chat turn do: load is the lazy construction
\* of the chatbot and the import of the tool registry, call1 and call2 are
\* the two chat-completion calls, tools is the processing of the tool calls
\* (json.loads of their arguments), exc is str(e) of what is raised (an
\* exception may carry no text).
ChatBehaviours ==
    { b \in [load : {"ok", "raise"}, call1 : {"content", "tool_calls", "raise"},
              tools : {"ok", "raise"}, call2 : {"content", "raise"},
              exc : {<<>>, <<"boom">>}, raises : BOOLEAN] :
        /\ (b.load = "raise") => (b.call1 = "content")
        /\ (b.call1 # "tool_calls") => (b.tools = "ok")
        /\ (b.call1 # "tool_calls" \/ b.tools = "raise") => (b.call2 = "content")
        /\ b.raises <=> (b.load = "raise" \/ b.call1 = "raise"
                           \/ b.tools = "raise" \/ b.call2 = "raise")
        /\ (~b.raises) => (b.exc = <<>>) }

\* AnalystChatbot._process_report_request: every path returns no report
\* (no keyword, no target ticker, or the except branch reached from the
\* name target_tickers, which the function never binds).
process_report_request == <<None, "md">>

\* The except branch of AnalystChatbot.chat: a dict of two keys.
ChatCaught(exc) == [content |-> <<"chat error: ">> \o exc, report |-> None]

\* AnalystChatbot.chat(message, ...) with collaborators behaving as b: the
\* dict it returns, or raised = TRUE when the exception leaves chat().
chat(message, b) ==
    IF b.load = "raise" THEN [raised |-> TRUE, exc |-> b.exc]
    ELSE IF b.call1 = "raise" THEN [raised |-> FALSE, result |-> ChatCaught(b.exc)]
    ELSE IF b.call1 = "tool_calls" /\ b.tools = "raise"
         THEN [raised |-> FALSE, result |-> ChatCaught(b.exc)]
    ELSE IF b.call1 = "tool_calls" /\ b.call2 = "raise"
         THEN [raised |-> FALSE, result |-> ChatCaught(b.exc)]
    ELSE [raised |-> FALSE,
          result |-> [content |-> <<"answer">>,
                      report |-> process_report_request[1],
                      report_type |-> process_report_request[2]]]

\* result.get(key, default) of the dict chat() returned.
DictGet(d, key, default) == IF key \in DOMAIN d THEN d[key] ELSE default

\* conversation_history[-HistoryWindow:] is what a prompt replays.
HistoryWindow == 6

\* seq[-n:]
Last(seq, n) ==
    IF Len(seq) <= n THEN seq ELSE SubSeq(seq, Len(seq) - n + 1, Len(seq))

\* The messages list chat() builds for the first model call: the system
\* prompt, the last turns of the history, the user's turn.  owner is the
\* session the call is made for.
build_messages(hist, message, owner) ==
    <<[role |-> "system", content |-> "system_prompt", session |-> NoId]>>
        \o Last(hist, HistoryWindow)
        \o <<[role |-> "user", content |-> message, session |-> owner]>>

\* chat() reaches the construction of its messages list: the tool registry
\* is imported outside the try, everything later inside it.
BuildsPrompt(b) == b.load = "ok"

\* chat() returns from its try block, not from its except branch.
Answers(b) == b.load = "ok" /\ ~b.raises

\* The conversation_history chat(message) leaves: the user's message and the
\* answer are appended when, and only when, the try block runs to its end.
chat_history(hist, message, b, owner) ==
    IF Answers(b)
    THEN hist \o <<[role |-> "user", content |-> message, session |-> owner],
                   [role |-> "assistant", content |-> "answer", session |-> owner]>>
    ELSE hist

\* AnalystChatbot.clear_history()
clear_history(hist) == <<>>

\* ------------------------------------------------------ ticker resolution
\* A text is the list of its characters.
\* str.upper() on one character: the ASCII lower-case letters change.
UpperCase ==
    "a" :> "A" @@ "c" :> "C" @@ "e" :> "E" @@ "f" :> "F" @@ "i" :> "I"
    @@ "l" :> "L" @@ "m" :> "M" @@ "n" :> "N" @@ "o" :> "O" @@ "p" :> "P"
    @@ "r" :> "R" @@ "s" :> "S" @@ "t" :> "T"

\* The upper-case ASCII letters of the texts used here.
CapitalLetters == {UpperCase[c] : c \in DOMAIN UpperCase}

\* The ASCII characters of the texts used here.
AsciiCharacters == DOMAIN UpperCase \cup CapitalLetters \cup {" "}

\* str.upper()
upper(text) ==
    [i \in 1..Len(text) |->
        IF text[i] \in DOMAIN UpperCase THEN UpperCase[text[i]] ELSE text[i]]

\* str.isascii()
isascii(text) == \A i \in 1..Len(text) : text[i] \in AsciiCharacters

\* str.strip(): the text without its leading and trailing blanks.
RECURSIVE strip(_)
strip(text) ==
    IF text = <<>> THEN text
    ELSE IF Head(text) = " " THEN strip(Tail(text))
    ELSE IF text[Len(text)] = " " THEN strip(SubSeq(text, 1, Len(text) - 1))
    ELSE text

\* The company-name hints a request may carry.  "<ae>" and "<peul>" stand
\* for the two Hangul syllables of the Korean name of Apple, which are not
\* ASCII.
Hints ==
    {<<>>,
     <<"A", "p", "p", "l", "e">>,
     <<"A", "A", "P", "L">>,
     <<"<ae>", "<peul>">>,
     <<"A", "p", "p", "l", "e", " ", "I", "n", "c">>,
     <<"M", "i", "c", "r", "o", "s", "o", "f", "t">>}

\* What the three lookups in the companies table do (exact ticker,
\* korean_name, company_name), and the ticker of the row a name lookup finds.
Lookups == [exact : {"match", "none", "raise"},
            korean : {"match", "none", "raise"},
            english : {"match", "none", "raise"}]

\* res.data[0]["ticker"] of a row found by name.
RowTicker == <<"A", "A", "P", "L">>

\* What the model answers when asked for the ticker (None when the call
\* raises).
Fallbacks == {<<"A", "A", "P", "L">>, <<" ", "A", "A", "P", "L", " ">>, <<"raise">>}

\* Optional[str]
NoText == [is_none |-> TRUE, text |-> <<>>]

SomeText(text) == [is_none |-> FALSE, text |-> text]

\* _resolve_ticker_name without its except branches: a lookup that raises
\* ends the resolution with no ticker.
resolve_ticker_name_lookup_raises(input_text, db, llm) ==
    IF input_text = <<>> THEN NoText
    ELSE IF db.exact = "raise" THEN NoText
    ELSE IF db.exact = "match" THEN SomeText(upper(input_text))
    ELSE IF db.korean = "raise" THEN NoText
    ELSE IF db.korean = "match" THEN SomeText(RowTicker)
    ELSE IF db.english = "raise" THEN NoText
    ELSE IF db.english = "match" THEN SomeText(RowTicker)
    ELSE IF isascii(input_text) /\ Len(input_text) <= 5
            /\ " " \notin Range(input_text)
         THEN SomeText(upper(input_text))
    ELSE IF llm = <<"raise">> THEN SomeText(input_text)
    ELSE SomeText(strip(llm))

\* AnalystChatbot._resolve_ticker_name(input_text), with the table lookups
\* behaving as db and the model answering llm.
resolve_ticker_name(input_text, db, llm) ==
    IF input_text = <<>> THEN NoText
    ELSE IF db.exact = "match" THEN SomeText(upper(input_text))
    ELSE IF db.korean = "match" THEN SomeText(RowTicker)
    ELSE IF db.english = "match" THEN SomeText(RowTicker)
    ELSE IF isascii(input_text) /\ Len(input_text) <= 5
            /\ " " \notin Range(input_text)
         THEN SomeText(upper(input_text))
    ELSE IF llm = <<"raise">> THEN SomeText(input_text)
    ELSE SomeText(strip(llm))

\* The strategies one call of _resolve_ticker_name invokes, in the order it
\* invokes them: the three queries of the companies table, the test of the
\* format, the model call.
strategies_invoked(input_text, db, llm) ==
    IF input_text = <<>> THEN <<>>
    ELSE IF db.exact = "match" THEN <<"exact">>
    ELSE IF db.korean = "match" THEN <<"exact", "korean">>
    ELSE IF db.english = "match" THEN <<"exact", "korean", "english">>
    ELSE IF isascii(input_text) /\ Len(input_text) <= 5
            /\ " " \notin Range(input_text)
         THEN <<"exact", "korean", "english", "heuristic">>
    ELSE <<"exact", "korean", "english", "heuristic", "llm">>

\* ------------------------------------------------------ report side effect
\* A message is the list of its words.
\* The keywords list of _process_report_request (the Korean ones are written
\* by their meaning).
ReportKeywords ==
    {"report", "pdf", "<report-ko>", "<analysis-report-ko>", "<download-ko>",
     "<file-ko>", "<material-ko>", "<pdf-ko>"}

\* str.lower() on a word.
lower(word) ==
    CASE word = "PDF" -> "pdf"
      [] word = "Report" -> "report"
      [] OTHER -> word

\* any(k in message.lower() for k in keywords)
HasReportKeyword(message) ==
    \E i \in 1..Len(message) : lower(message[i]) \in ReportKeywords

\* re.findall(r"\b[A-Z]{2,5}\b", content): the words of two to five capital
\* letters, in their order.
TickerWords == {"AAPL", "TSLA"}

findall(content) == SelectSeq(content, LAMBDA word : word \in TickerWords)

\* The target ticker read back from the history: the first match of the
\* latest turn of the role that has one (None when no turn has).
RECURSIVE from_history(_, _)
from_history(hist, role) ==
    IF hist = <<>> THEN None
    ELSE LET turn == hist[Len(hist)]
         IN  IF turn.role = role /\ findall(turn.content) # <<>>
             THEN findall(turn.content)[1]
             ELSE from_history(SubSeq(hist, 1, Len(hist) - 1), role)

\* The names bound in _process_report_request when line 693 is evaluated:
\* its parameters, its locals and its imports.
BoundNames ==
    {"self", "message", "assistant_message", "tickers", "keywords",
     "target_ticker", "hist_msg", "matches", "ReportGenerator", "create_pdf",
     "generate_line_chart", "generate_candlestick_chart",
     "generate_volume_chart", "generate_financial_chart", "generator",
     "report_md"}

\* AnalystChatbot._process_report_request(message, assistant_message,
\* tickers) on the history hist, with the report modules behaving as env.
\* The try block imports the modules, builds the generator and evaluates
\* len(target_tickers); that name is bound nowhere, so the NameError takes
\* the call to the except branch and the lines after it never run.
_process_report_request(message, tickers, hist, env) ==
    IF ~HasReportKeyword(message) THEN <<None, "md">>
    ELSE LET first == IF tickers # <<>> THEN tickers[1] ELSE None
             of_user == IF first # None THEN first
                        ELSE from_history(hist, "user")
             target_ticker == IF of_user # None THEN of_user
                              ELSE from_history(hist, "assistant")
         IN  IF target_ticker = None THEN <<None, "md">>
             ELSE IF env.imports = "raise" \/ env.generator = "raise"
                  THEN <<None, "md">>
             ELSE IF "target_tickers" \notin BoundNames
                  THEN <<None, "md">>
             ELSE <<"report", IF env.pdf = "raise" THEN "md" ELSE "pdf">>

\* ------------------------------------------------------------ ToolInvoker
\* The names of the tools get_chat_tools() registers.
ToolRegistry ==
    {"get_stock_quote", "get_company_profile", "get_price_target",
     "get_company_news", "get_market_news", "register_company",
     "get_exchange_rate", "convert_to_krw", "get_stock_candles",
     "add_to_favorites"}

\* The "required" list of each tool's schema in get_chat_tools().
Required(function_name) ==
    CASE function_name \in {"get_stock_quote", "get_company_profile",
                            "get_price_target", "get_company_news",
                            "register_company", "get_stock_candles",
                            "add_to_favorites"} -> {"ticker"}
      [] function_name = "convert_to_krw" -> {"usd_amount"}
      [] OTHER -> {}

\* The function names a model may put in a tool call: the registry and a
\* name outside it.
FunctionNames == ToolRegistry \cup {"get_weather"}

\* The texts a model may put in tool_call.function.arguments.
ArgumentTexts ==
    {"{}", "{\"ticker\": \"aapl\"}", "{\"usd_amount\": 100}", "{\"ticker\": "}

\* json.loads(text): the dict the text denotes, or raised when it is no JSON.
json_loads(text) ==
    CASE text = "{}" -> [raised |-> FALSE, value |-> EmptyDict]
      [] text = "{\"ticker\": \"aapl\"}" ->
             [raised |-> FALSE, value |-> [ticker |-> "aapl"]]
      [] text = "{\"usd_amount\": 100}" ->
             [raised |-> FALSE, value |-> [usd_amount |-> 100]]
      [] text = "{\"ticker\": \"tsla\"}" ->
             [raised |-> FALSE, value |-> [ticker |-> "tsla"]]
      [] text = "{\"ticker\": \"nestle\"}" ->
             [raised |-> FALSE, value |-> [ticker |-> "nestle"]]
      [] text = "{\"ticker\": null}" ->
             [raised |-> FALSE, value |-> [ticker |-> None]]
      [] text = "{\"answer\": \"fine\", \"recommendations\": [\"more?\"]}" ->
             [raised |-> FALSE,
              value |-> [answer |-> <<"fine">>, recommendations |-> <<"more?">>]]
      [] text = "{\"note\": \"fine\"}" ->
             [raised |-> FALSE, value |-> [note |-> <<"fine">>]]
      [] OTHER -> [raised |-> TRUE, exc |-> <<"JSONDecodeError">>]

\* What the collaborators of one tool call do: they return data, return
\* nothing (None, an empty list, a zero rate), raise, or are not there
\* (self.finnhub or self.exchange_client is None, the favorites module
\* cannot be imported).
Collaborators == {"data", "empty", "raise", "unavailable"}

\* json.dumps({"error": reason})
JsonError(reason) == [kind |-> "json", error |-> reason]

\* json.dumps(res) of what a collaborator returned.
JsonData(res) == [kind |-> "json", data |-> res]

\* A result that is a sentence, not JSON.
PlainText(text) == [kind |-> "text", text |-> text]

\* The except branch of _handle_tool_call.
ExecutionError == JsonError(<<"execution error: ", "exc">>)

\* AnalystChatbot._register_company(ticker): a sentence on every path, the
\* except branch included.
\* Returns the sentence and the collaborators called.
register_company(ticker, c) ==
    CASE c = "unavailable" ->
             [result |-> PlainText(<<"Finnhub client is not configured">>),
              called |-> {}]
      [] c = "raise" ->
             [result |-> PlainText(<<"registration error: ", "exc">>),
              called |-> {"supabase"}]
      [] c = "empty" ->
             [result |-> PlainText(<<"no company profile found: ", ticker>>),
              called |-> {"supabase", "finnhub.get_company_profile"}]
      [] OTHER ->
             [result |-> PlainText(<<"registered: ", ticker>>),
              called |-> {"supabase", "finnhub.get_company_profile",
                          "openai_client"}]

\* One call of a method of self.finnhub, and what the branch makes of it.
\* sliced is TRUE for the branches that return res[:5].
finnhub_call(method, c, sliced) ==
    CASE c = "unavailable" -> [result |-> ExecutionError, called |-> {}]
      [] c = "raise" -> [result |-> ExecutionError, called |-> {method}]
      [] c = "empty" -> [result |-> IF sliced THEN ExecutionError
                                    ELSE JsonData("null"),
                         called |-> {method}]
      [] OTHER -> [result |-> JsonData("data"), called |-> {method}]

\* The branches of _handle_tool_call that use self.exchange_client.
exchange_call(methods, c, failure) ==
    CASE c = "unavailable" ->
             [result |-> JsonError(<<"exchange service disabled">>), called |-> {}]
      [] c = "raise" -> [result |-> ExecutionError, called |-> methods]
      [] c = "empty" -> [result |-> JsonError(failure), called |-> methods]
      [] OTHER -> [result |-> JsonData("data"), called |-> methods]

\* The last return answering every unknown name as a quote request.
unknown_function_as_quote(function_name) ==
    [branch |-> "get_stock_quote", result |-> JsonData("data"),
     called |-> {"finnhub.get_quote"}]

\* The last return of the try block, reached when no branch of the chain
\* has taken the name.
unknown_function(function_name) ==
    [branch |-> "unknown",
     result |-> JsonError(<<"Unknown function: ", function_name>>),
     called |-> {}]

\* The body of the try block of _handle_tool_call: the if/elif chain.
\* Returns the branch taken, the result and the collaborators called.
dispatch(function_name, function_args, c) ==
    LET ticker == DictGet(function_args, "ticker", None)
        branch(r) == [branch |-> function_name, result |-> r.result,
                      called |-> r.called]
    IN  CASE function_name = "get_stock_quote" ->
                 branch(finnhub_call("finnhub.get_quote", c, FALSE))
          [] function_name = "get_company_profile" ->
                 branch(finnhub_call("finnhub.get_company_profile", c, FALSE))
          [] function_name = "get_price_target" ->
                 branch(finnhub_call("finnhub.get_price_target", c, FALSE))
          [] function_name = "get_company_news" ->
                 branch(finnhub_call("finnhub.get_company_news", c, TRUE))
          [] function_name = "get_market_news" ->
                 branch(finnhub_call("finnhub.get_market_news", c, TRUE))
          [] function_name = "register_company" ->
                 branch(register_company(ticker, c))
          [] function_name = "get_exchange_rate" ->
                 branch(exchange_call({"exchange_client.get_rate"}, c,
                                      <<"exchange rate lookup failed">>))
          [] function_name = "convert_to_krw" ->
                 branch(exchange_call({"exchange_client.convert",
                                       "exchange_client.get_rate"}, c,
                                      <<"conversion failed">>))
          [] function_name = "get_stock_candles" ->
                 \* function_args.get("ticker").upper() raises on None
                 IF ticker = None
                 THEN branch([result |-> ExecutionError, called |-> {}])
                 ELSE IF c \in {"unavailable", "raise"}
                 THEN branch(finnhub_call("finnhub.get_candles", c, FALSE))
                 ELSE IF c = "empty"
                 THEN branch([result |-> JsonError(<<"no price data">>),
                              called |-> {"finnhub.get_candles"}])
                 ELSE branch(finnhub_call("finnhub.get_candles", c, FALSE))
          [] function_name = "add_to_favorites" ->
                 IF c = "unavailable"
                 THEN branch([result |-> PlainText(<<"favorites module not found">>),
                              called |-> {}])
                 ELSE IF c = "raise"
                 THEN branch([result |-> ExecutionError,
                              called |-> {"add_to_favorites_tool"}])
                 ELSE branch([result |-> PlainText(<<"favorites: ", c>>),
                              called |-> {"add_to_favorites_tool"}])
          [] OTHER -> unknown_function(function_name)

\* AnalystChatbot._handle_tool_call(tool_call): json.loads of the arguments,
\* outside the try block, then the dispatch inside it.  raised is TRUE when
\* an exception leaves the method.
handle_tool_call(function_name, arguments, c) ==
    LET parsed == json_loads(arguments) IN
    IF parsed.raised
    THEN [raised |-> TRUE, exc |-> parsed.exc, branch |-> "none", called |-> {}]
    ELSE LET d == dispatch(function_name, parsed.value, c)
         IN  [raised |-> FALSE, result |-> d.result, branch |-> d.branch,
              called |-> d.called]

\* ----------------------------------------------------------- one chat turn
\* AnalystChatbot.chat line by line.  A text is the list of its characters,
\* a message the list of its words.

\* The characters of the tickers a tool call's arguments may carry.
Chars ==
    "aapl" :> <<"a", "a", "p", "l">> @@ "tsla" :> <<"t", "s", "l", "a">>
    @@ "nestle" :> <<"n", "e", "s", "t", "l", "e">>

\* "".join(chars) for the tickers of the turns, as a word of a message.
as_word(chars) ==
    CASE chars = <<"A", "A", "P", "L">> -> "AAPL"
      [] chars = <<"T", "S", "L", "A">> -> "TSLA"
      [] OTHER -> "<text>"

\* sep.join(parts)
RECURSIVE join(_, _)
join(sep, parts) ==
    IF parts = <<>> THEN <<>>
    ELSE IF Len(parts) = 1 THEN parts[1]
    ELSE parts[1] \o <<sep>> \o join(sep, Tail(parts))

\* What the data sources of _build_context give: the retriever returns
\* data, returns nothing, is missing (self.data_retriever is None) or raises;
\* docs is what the document search returns.
Sources == {"data", "empty", "unavailable", "raise"}

\* AnalystChatbot._build_context(query, ticker): the document search alone
\* for a call without ticker, the retriever's data otherwise, a placeholder
\* when there is nothing.  raised is TRUE when the retriever's exception
\* leaves the method.
build_context(query, ticker, sources, docs) ==
    IF ticker = <<>>
    THEN [raised |-> FALSE, searched |-> TRUE,
          text |-> IF docs = <<>> THEN <<"no additional context">>
                   ELSE <<"related documents">> \o docs]
    ELSE IF sources = "unavailable"
    THEN [raised |-> FALSE, searched |-> FALSE,
          text |-> <<"data module not working">>]
    ELSE IF sources = "raise"
    THEN [raised |-> TRUE, searched |-> FALSE, exc |-> <<"retriever">>]
    ELSE IF sources = "empty"
    THEN [raised |-> FALSE, searched |-> FALSE,
          text |-> <<"no additional context">>]
    ELSE [raised |-> FALSE, searched |-> FALSE,
          text |-> <<"company information", ticker>>]

\* Step 2 of chat(): the tickers of the turn before any tool call.
hint_tickers(ticker, db, llm) ==
    IF ticker = <<>> THEN <<>>
    ELSE LET resolved == resolve_ticker_name(ticker, db, llm)
         IN  IF ~resolved.is_none /\ resolved.text # <<>>
             THEN <<resolved.text>> ELSE <<ticker>>

\* Step 2 of chat(): the context, built only when retrieval is enabled and
\* the turn has a ticker.
turn_context(message, tickers, use_rag, sources, docs) ==
    IF use_rag /\ tickers # <<>>
    THEN LET context_parts ==
                 [i \in 1..Len(tickers) |->
                     build_context(message, tickers[i], sources, docs)]
         IN  IF \E i \in 1..Len(tickers) : context_parts[i].raised
             THEN [raised |-> TRUE, searched |-> FALSE, exc |-> <<"retriever">>]
             ELSE [raised |-> FALSE,
                   searched |-> \E i \in 1..Len(tickers) : context_parts[i].searched,
                   text |-> join("---", [i \in 1..Len(tickers) |->
                                            context_parts[i].text])]
    ELSE [raised |-> FALSE, searched |-> FALSE, text |-> <<>>]

\* The content of the user's turn of the prompt.
user_content(context, message) ==
    IF context # <<>>
    THEN <<"[context]">> \o context \o <<"[question]">> \o message
    ELSE message

\* The tool message answering every call under the call's name.
tool_message_by_name(tool_call, result) ==
    [role |-> "tool", tool_call_id |-> tool_call.function_name,
     name |-> tool_call.function_name, content |-> result]

\* The message chat() appends for an executed tool call.
tool_message(tool_call, result) ==
    [role |-> "tool", tool_call_id |-> tool_call.id,
     name |-> tool_call.function_name, content |-> result]

\* The adoption of a tool call's ticker without the test on the list.
adopt_ticker_always(tickers, args) ==
    IF "ticker" \in DOMAIN args
    THEN IF args.ticker = None
         THEN [raised |-> TRUE, exc |-> <<"AttributeError">>]
         ELSE LET t == upper(Chars[args.ticker])
              IN  [raised |-> FALSE,
                   tickers |-> IF Len(t) <= 5 THEN Append(tickers, t) ELSE tickers]
    ELSE [raised |-> FALSE, tickers |-> tickers]

\* Lines 583-587 of chat(): a tool call's ticker is adopted when the turn has
\* none yet.  args["ticker"].upper() raises on a ticker that is no string.
adopt_ticker(tickers, args) ==
    IF "ticker" \in DOMAIN args /\ tickers = <<>>
    THEN IF args.ticker = None
         THEN [raised |-> TRUE, exc |-> <<"AttributeError">>]
         ELSE LET t == upper(Chars[args.ticker])
              IN  [raised |-> FALSE,
                   tickers |-> IF Len(t) <= 5 THEN Append(tickers, t) ELSE tickers]
    ELSE [raised |-> FALSE, tickers |-> tickers]

\* The chart data chat() keeps from the result of a tool call.
chart_of(tool_call, result, chart_data) ==
    IF tool_call.function_name = "get_stock_candles" /\ result.kind = "json"
       /\ "error" \notin DOMAIN result
    THEN result ELSE chart_data

\* The for loop of chat() over the tool calls.  acc holds the messages, the
\* tickers and the chart data so far, the ids of the calls handed to
\* _handle_tool_call, and the exception that ended the loop, if any.
RECURSIVE run_tool_calls(_, _, _)
run_tool_calls(tool_calls, c, acc) ==
    IF tool_calls = <<>> \/ acc.raised THEN acc
    ELSE LET tool_call == Head(tool_calls)
             h == handle_tool_call(tool_call.function_name,
                                   tool_call.arguments, c)
             handed == [acc EXCEPT !.executed = Append(@, tool_call.id)]
         IN  IF h.raised
             THEN [handed EXCEPT !.raised = TRUE, !.exc = h.exc]
             ELSE LET a == adopt_ticker(acc.tickers,
                                        json_loads(tool_call.arguments).value)
                      appended ==
                          [handed EXCEPT
                              !.messages = Append(@, tool_message(tool_call,
                                                                  h.result)),
                              !.chart_data = chart_of(tool_call, h.result, @)]
                  IN  IF a.raised
                      THEN [appended EXCEPT !.raised = TRUE, !.exc = a.exc]
                      ELSE run_tool_calls(Tail(tool_calls), c,
                               [appended EXCEPT !.tickers = a.tickers])

\* Lines 601-608 of chat(): the answer and the recommendations read from the
\* raw content; the raw content itself is the answer when it is no JSON or
\* has no "answer" key.  json.loads(None) raises a TypeError, which the
\* except JSONDecodeError does not take.
extract_answer(raw_content) ==
    IF raw_content = None
    THEN [raised |-> TRUE, exc |-> <<"TypeError">>]
    ELSE LET parsed_content == json_loads(raw_content)
         IN  IF parsed_content.raised
             THEN [raised |-> FALSE, assistant_message |-> <<raw_content>>,
                   recommendations |-> <<>>]
             ELSE [raised |-> FALSE,
                   assistant_message |->
                       DictGet(parsed_content.value, "answer", <<raw_content>>),
                   recommendations |->
                       DictGet(parsed_content.value, "recommendations", <<>>)]

\* The history update keeping what was sent to the model as the user's turn.
history_update_sent(hist, sent, message, assistant_message, owner) ==
    hist \o <<[role |-> "user", content |-> sent, session |-> owner],
              [role |-> "assistant", content |-> assistant_message,
               session |-> owner]>>

\* Lines 618-621 of chat(): the user's message and the answer are appended
\* to conversation_history.  sent is the content of the user's turn of the
\* prompt.
history_update(hist, sent, message, assistant_message, owner) ==
    hist \o <<[role |-> "user", content |-> message, session |-> owner],
              [role |-> "assistant", content |-> assistant_message,
               session |-> owner]>>

\* One call of self.openai_client.chat.completions.create by chat(): the
\* messages it submits, the tools it offers and the tool choice.
completion(messages, tools, tool_choice) ==
    [messages |-> messages, tools |-> tools, tool_choice |-> tool_choice]

\* What chat() leaves when its except branch takes the exception exc: the
\* completions made, the tool calls handed to _handle_tool_call so far.
turn_caught(hist, exc, completions, executed, searched) ==
    [caught |-> TRUE, completions |-> completions, executed |-> executed,
     searched |-> searched, context |-> <<>>, tickers |-> <<>>,
     history |-> hist, result |-> ChatCaught(exc)]

\* Lines 600-630 of chat(): from the raw content to the returned dict.
turn_answer(message, hist, w, owner, sent, context, raw_content, tickers, chart_data, completions, executed, searched) ==
    LET e == extract_answer(raw_content) IN
    IF e.raised
    THEN turn_caught(hist, e.exc, completions, executed, searched)
    ELSE LET r == _process_report_request(message,
                      [i \in 1..Len(tickers) |-> as_word(tickers[i])], hist, w.env)
             assistant_message ==
                 IF r[1] # None
                 THEN Append(e.assistant_message, "<report ready>")
                 ELSE e.assistant_message
         IN  [caught |-> FALSE, completions |-> completions,
              executed |-> executed, searched |-> searched,
              context |-> context, tickers |-> tickers,
              history |-> history_update(hist, sent, message,
                                         assistant_message, owner),
              result |-> [content |-> assistant_message, report |-> r[1],
                          report_type |-> r[2], tickers |-> tickers,
                          chart_data |-> chart_data,
                          recommendations |-> e.recommendations]]

\* AnalystChatbot.chat(message, ticker, use_rag) on the history hist, for the
\* session owner, with the collaborators behaving as w: the lookups of the
\* ticker resolution (db, llm), the data sources of the context (sources,
\* docs), the two model calls (call1, call2), the collaborators of the tools
\* (c) and the report modules (env).
chat_turn(message, ticker, use_rag, hist, w, owner) ==
    LET tickers == hint_tickers(ticker, w.db, w.llm)
        ctx == turn_context(message, tickers, use_rag, w.sources, w.docs)
    IN  IF ctx.raised THEN turn_caught(hist, ctx.exc, <<>>, <<>>, FALSE)
        ELSE
        LET sent == user_content(ctx.text, message)
            messages == build_messages(hist, sent, owner)
            first == completion(messages, ToolRegistry, "auto")
        IN  IF w.call1.kind = "raise"
            THEN turn_caught(hist, <<"model client">>, <<first>>, <<>>,
                             ctx.searched)
            ELSE IF w.call1.tool_calls # <<>>
            THEN LET resp_msg == [role |-> "assistant",
                                  content |-> w.call1.content,
                                  tool_calls |-> w.call1.tool_calls]
                     acc == run_tool_calls(w.call1.tool_calls, w.c,
                                [messages |-> Append(messages, resp_msg),
                                 tickers |-> tickers, chart_data |-> None,
                                 executed |-> <<>>, raised |-> FALSE,
                                 exc |-> <<>>])
                     second == completion(acc.messages, {}, None)
                 IN  IF acc.raised
                     THEN turn_caught(hist, acc.exc, <<first>>, acc.executed,
                                      ctx.searched)
                     ELSE IF w.call2 = "raise"
                     THEN turn_caught(hist, <<"model client">>,
                                      <<first, second>>, acc.executed,
                                      ctx.searched)
                     ELSE turn_answer(message, hist, w, owner, sent, ctx.text,
                                      w.call2, acc.tickers, acc.chart_data,
                                      <<first, second>>, acc.executed,
                                      ctx.searched)
            ELSE turn_answer(message, hist, w, owner, sent, ctx.text,
                             w.call1.content, tickers, None, <<first>>, <<>>,
                             ctx.searched)

\* ----------------------------------------------------------- ChatConnector
\* process_message is modelled stage by stage, one operator per numbered
\* stage of its body.  Each stage gets the _sessions and _requests left so
\* far and the stages run so far (st), and returns the ChatResponse (ret),
\* the stages run (steps) and the _sessions and _requests it leaves.

\* Stage 5 answering an exception with str(e) alone.
call_chatbot_bare_exception(sess, reqs, sid, validation, remaining, b, st) ==
    LET c == chat(validation.sanitized_input, b) IN
    IF c.raised
    THEN [sessions |-> sess, requests |-> reqs,
          steps |-> Append(st, "chatbot"),
          ret |-> ChatResponse(FALSE, c.exc, "PROCESSING_ERROR", EmptyDict)]
    ELSE [sessions |-> [sess EXCEPT ![sid].message_count = @ + 1],
          requests |-> reqs,
          steps |-> Append(st, "chatbot"),
          ret |-> [success |-> TRUE,
                   content |-> DictGet(c.result, "content", <<>>),
                   report |-> DictGet(c.result, "report", None),
                   report_type |-> DictGet(c.result, "report_type", None),
                   error_code |-> None,
                   metadata |-> [remaining_requests |-> remaining,
                                 session_message_count |->
                                     sess[sid].message_count + 1]]]

\* Stage 5 of process_message: the chatbot call, then the success response
\* or the PROCESSING_ERROR of the except branch.
call_chatbot(sess, reqs, sid, validation, remaining, b, st) ==
    LET c == chat(validation.sanitized_input, b) IN
    IF c.raised
    THEN [sessions |-> sess, requests |-> reqs,
          steps |-> Append(st, "chatbot"),
          ret |-> ChatResponse(FALSE, <<"processing error: ">> \o c.exc,
                     "PROCESSING_ERROR", EmptyDict)]
    ELSE LET counted == [sess EXCEPT ![sid].message_count = @ + 1]
         IN  [sessions |-> counted, requests |-> reqs,
              steps |-> Append(st, "chatbot"),
              ret |-> [success |-> TRUE,
                       content |-> DictGet(c.result, "content", <<>>),
                       report |-> DictGet(c.result, "report", None),
                       report_type |-> DictGet(c.result, "report_type", None),
                       error_code |-> None,
                       metadata |-> [remaining_requests |-> remaining,
                                     session_message_count |->
                                         counted[sid].message_count]]]

\* Stage 4 with a rejection answered as the code answers it, but the block
\* decided by blocks(warnings) and set to last until block_until.
rejection(sess, reqs, sid, validation, blocks, block_until, st) ==
    LET warned == [sess EXCEPT ![sid].warnings = @ + 1]
        warnings == warned[sid].warnings
    IN  IF blocks
        THEN [sessions |-> [warned EXCEPT ![sid].blocked_until = block_until],
              requests |-> reqs,
              steps |-> Append(st, "validate"),
              ret |-> ChatResponse(FALSE, <<"session blocked for 10 minutes">>,
                         "SESSION_BLOCKED_SECURITY", [warnings |-> warnings])]
        ELSE [sessions |-> warned, requests |-> reqs,
              steps |-> Append(st, "validate"),
              ret |-> ChatResponse(FALSE, validation.message, "INPUT_REJECTED",
                         [threat_level |-> validation.threat_level,
                          warnings |-> warnings,
                          max_warnings |-> max_warnings])]

\* Stage 4 blocking only once the warnings exceed max_warnings.
input_validation_blocks_late(sess, reqs, sid, request, remaining, t, b, st) ==
    LET validation == validate(request.message) IN
    IF ~validation.is_valid
    THEN rejection(sess, reqs, sid, validation,
                   sess[sid].warnings + 1 > max_warnings, t + BlockDuration, st)
    ELSE call_chatbot(sess, reqs, sid, validation, remaining, b,
                      Append(st, "validate"))

\* Stage 4 answering SESSION_BLOCKED_SECURITY without setting blocked_until.
input_validation_forgets_block(sess, reqs, sid, request, remaining, t, b, st) ==
    LET validation == validate(request.message) IN
    IF ~validation.is_valid
    THEN rejection(sess, reqs, sid, validation,
                   sess[sid].warnings + 1 >= max_warnings,
                   sess[sid].blocked_until, st)
    ELSE call_chatbot(sess, reqs, sid, validation, remaining, b,
                      Append(st, "validate"))

\* Stage 4 taking a rejected request out of the rate window again.
input_validation_refunds(sess, reqs, sid, request, remaining, t, b, st) ==
    LET validation == validate(request.message) IN
    IF ~validation.is_valid
    THEN rejection(sess,
                   [reqs EXCEPT ![sid] = SubSeq(@, 1, Len(@) - 1)],
                   sid, validation, sess[sid].warnings + 1 >= max_warnings,
                   t + BlockDuration, st)
    ELSE call_chatbot(sess, reqs, sid, validation, remaining, b,
                      Append(st, "validate"))

\* Stage 4 starting the count of warnings again when it blocks the session.
input_validation_resets_on_block(sess, reqs, sid, request, remaining, t, b, st) ==
    LET validation == validate(request.message)
        out == rejection(sess, reqs, sid, validation,
                         sess[sid].warnings + 1 >= max_warnings,
                         t + BlockDuration, st)
    IN  IF ~validation.is_valid
        THEN IF sess[sid].warnings + 1 >= max_warnings
             THEN [out EXCEPT !.sessions[sid].warnings = 0]
             ELSE out
        ELSE call_chatbot(sess, reqs, sid, validation, remaining, b,
                          Append(st, "validate"))

\* Stage 4 of process_message: input validation, the warning count and the
\* security block.
input_validation(sess, reqs, sid, request, remaining, t, b, st) ==
    LET validation == validate(request.message) IN
    IF ~validation.is_valid
    THEN LET warned == [sess EXCEPT ![sid].warnings = @ + 1]
             warnings == warned[sid].warnings
         IN  IF warnings >= max_warnings
             THEN [sessions |-> [warned EXCEPT
                                   ![sid].blocked_until = t + BlockDuration],
                   requests |-> reqs,
                   steps |-> Append(st, "validate"),
                   ret |-> ChatResponse(FALSE, <<"session blocked for 10 minutes">>,
                              "SESSION_BLOCKED_SECURITY",
                              [warnings |-> warnings])]
             ELSE [sessions |-> warned, requests |-> reqs,
                   steps |-> Append(st, "validate"),
                   ret |-> ChatResponse(FALSE, validation.message,
                              "INPUT_REJECTED",
                              [threat_level |-> validation.threat_level,
                               warnings |-> warnings,
                               max_warnings |-> max_warnings])]
    ELSE call_chatbot(sess, reqs, sid, validation, remaining, b,
                      Append(st, "validate"))

\* Stage 3 running the validator before the rate limiter is asked.
rate_limit_check_validates_first(sess, reqs, sid, request, t, b, st) ==
    LET validation == validate(request.message)
        r == is_allowed(reqs, sid, t)
    IN  IF ~r.allowed
        THEN [sessions |-> sess, requests |-> r.requests,
              steps |-> st \o <<"validate", "rate">>,
              ret |-> ChatResponse(FALSE, <<"too many requests">>,
                         "RATE_LIMITED", [remaining_requests |-> 0])]
        ELSE input_validation(sess, r.requests, sid, request, r.remaining, t, b,
                              Append(st, "rate"))

\* Stage 3 counting a denied request as a warning.
rate_limit_check_warns(sess, reqs, sid, request, t, b, st) ==
    LET r == is_allowed(reqs, sid, t) IN
    IF ~r.allowed
    THEN [sessions |-> [sess EXCEPT ![sid].warnings = @ + 1],
          requests |-> r.requests,
          steps |-> Append(st, "rate"),
          ret |-> ChatResponse(FALSE, <<"too many requests">>, "RATE_LIMITED",
                     [remaining_requests |-> 0])]
    ELSE input_validation(sess, r.requests, sid, request, r.remaining, t, b,
                          Append(st, "rate"))

\* Stage 3 of process_message: the rate limit.
rate_limit_check(sess, reqs, sid, request, t, b, st) ==
    LET r == is_allowed(reqs, sid, t) IN
    IF ~r.allowed
    THEN [sessions |-> sess, requests |-> r.requests,
          steps |-> Append(st, "rate"),
          ret |-> ChatResponse(FALSE, <<"too many requests">>, "RATE_LIMITED",
                     [remaining_requests |-> 0])]
    ELSE input_validation(sess, r.requests, sid, request, r.remaining, t, b,
                          Append(st, "rate"))

\* process_message asking the rate limiter before it looks at the block.
process_message_rates_first(sess, reqs, request, new_id, t, b) ==
    LET g == get_or_create_session(sess, request.session_id, new_id, t)
        sid == g.id
        session == g.sessions[sid]
        r == is_allowed(reqs, sid, t)
    IN  IF session.blocked_until # NoTime /\ t < session.blocked_until
        THEN [sessions |-> g.sessions, requests |-> r.requests,
              steps |-> <<"session", "block">>,
              ret |-> ChatResponse(FALSE,
                         <<"session blocked, retry in seconds: ",
                           ToString(session.blocked_until - t)>>,
                         "SESSION_BLOCKED", EmptyDict)]
        ELSE rate_limit_check(g.sessions, reqs, sid, request, t, b,
                              <<"session", "block">>)

\* ChatConnector.process_message(request) at time t, with the collaborators
\* of the chat turn behaving as b: stage 1 (the session) and stage 2 (the
\* block check), then the later stages.
process_message(sess, reqs, request, new_id, t, b) ==
    LET g == get_or_create_session(sess, request.session_id, new_id, t)
        sid == g.id
        session == g.sessions[sid]
    IN  IF session.blocked_until # NoTime /\ t < session.blocked_until
        THEN [sessions |-> g.sessions, requests |-> reqs,
              steps |-> <<"session", "block">>,
              ret |-> ChatResponse(FALSE,
                         <<"session blocked, retry in seconds: ",
                           ToString(session.blocked_until - t)>>,
                         "SESSION_BLOCKED", EmptyDict)]
        ELSE rate_limit_check(g.sessions, reqs, sid, request, t, b,
                              <<"session", "block">>)

\* clear_session forgiving the session: the warnings and the block are reset
\* with the message count.
clear_session_forgives(sess, sid) ==
    IF sess[sid] # Absent
    THEN [ret |-> TRUE, sessions |-> [sess EXCEPT ![sid] = ChatSession(@.last_activity)]]
    ELSE [ret |-> FALSE, sessions |-> sess]

\* ChatConnector.clear_session(session_id): its return value and the
\* _sessions it leaves.
clear_session(sess, sid) ==
    IF sess[sid] # Absent
    THEN [ret |-> TRUE,
          sessions |-> [sess EXCEPT ![sid].message_count = 0,
                                    ![sid].context = EmptyDict]]
    ELSE [ret |-> FALSE, sessions |-> sess]

\* cleanup_expired_sessions removing a session as soon as its idle time
\* reaches the timeout.
cleanup_expired_sessions_at_timeout(sess, t) ==
    LET expired == {id \in SessionIds :
                      sess[id] # Absent /\ t - sess[id].last_activity >= session_timeout}
    IN  [ret |-> Cardinality(expired),
         sessions |-> [id \in SessionIds |->
                          IF id \in expired THEN Absent ELSE sess[id]]]

\* ChatConnector.cleanup_expired_sessions() at time t.
cleanup_expired_sessions(sess, t) ==
    LET expired == {id \in SessionIds :
                      sess[id] # Absent /\ Expired(sess[id], t)}
    IN  [ret |-> Cardinality(expired),
         sessions |-> [id \in SessionIds |->
                          IF id \in expired THEN Absent ELSE sess[id]]]

\* ----------------------------------------------------------------- actions
\* The ids _generate_session_id can return: those no session uses.
FreeIds == {id \in ids : sessions[id] = Absent}

\* The threads that call the connector.
Threads == {"t1", "t2"}

\* The owner of a lock nobody holds.
NoThread == "free"

\* The connector after ChatConnector(), no method called yet.
Constructed ==
    /\ now = 0
    /\ sessions = [id \in SessionIds |-> Absent]
    /\ requests = [id \in SessionIds |-> <<>>]
    /\ op = [name |-> "init"]
    /\ steps = <<>>
    /\ ret = None
    /\ conversation_history = <<>>
    /\ prompt = <<>>
    /\ threads = [t \in Threads |-> [pc |-> "idle"]]
    /\ locks = [connector |-> NoThread, rate_limiter |-> NoThread]
    /\ completed = [id \in SessionIds |->
                       [rejected |-> 0, answered |-> 0, granted |-> <<>>]]

\* One caller, one session id.
Init ==
    /\ Constructed
    /\ ids = {"s1"}
    /\ calls_left = MaxCalls

\* Two callers, two session ids.
InitTwo ==
    /\ Constructed
    /\ ids = SessionIds
    /\ calls_left = MaxCallsTwo

\* Time passes between two calls.
Tick ==
    /\ now < MaxTime
    /\ now' = now + 1
    /\ UNCHANGED <<sessions, requests, ids, calls_left,
                   op, steps, ret>>
    /\ UNCHANGED <<chat_vars, thread_vars>>

\* A caller runs connector.process_message(ChatRequest(sid, message)) while
\* the collaborators of the chat turn behave as b.
ProcessMessageAs(sid, message, b) ==
    LET out == process_message(sessions, requests,
                   [session_id |-> sid, message |-> message],
                   sid, now, b)
    IN  /\ calls_left > 0
        /\ calls_left' = calls_left - 1
        /\ sessions' = out.sessions
        /\ requests' = out.requests
        /\ steps' = out.steps
        /\ ret' = out.ret
        /\ op' = [name |-> "process_message", session_id |-> sid,
                  message |-> message]
        /\ IF "chatbot" \in Range(out.steps)
           THEN /\ conversation_history' =
                       chat_history(conversation_history,
                                    validate(message).sanitized_input, b, sid)
                /\ prompt' = IF BuildsPrompt(b)
                              THEN build_messages(conversation_history,
                                       validate(message).sanitized_input, sid)
                              ELSE <<>>
           ELSE /\ conversation_history' = conversation_history
                /\ prompt' = <<>>
        /\ UNCHANGED <<now, ids, thread_vars>>

ProcessMessage ==
    \E sid \in ids, message \in Messages, b \in ChatBehaviours :
        ProcessMessageAs(sid, message, b)

\* A caller runs connector.get_or_create_session(sid).
GetOrCreateSession ==
    \E sid \in ids \cup {NoId} :
    \E new_id \in IF sid = NoId THEN FreeIds ELSE {sid} :
        LET out == get_or_create_session(sessions, sid, new_id, now)
        IN  /\ calls_left > 0
            /\ calls_left' = calls_left - 1
            /\ sessions' = out.sessions
            /\ ret' = out.id
            /\ op' = [name |-> "get_or_create_session", session_id |-> sid]
            /\ steps' = out.log
            /\ prompt' = <<>>
            /\ UNCHANGED <<now, requests, ids, conversation_history, thread_vars>>

\* A caller runs connector.clear_session(sid).
ClearSession ==
    \E sid \in ids :
        LET out == clear_session(sessions, sid)
        IN  /\ calls_left > 0
            /\ calls_left' = calls_left - 1
            /\ sessions' = out.sessions
            /\ ret' = out.ret
            /\ op' = [name |-> "clear_session", session_id |-> sid]
            /\ steps' = <<>>
            /\ conversation_history' =
                   IF out.ret THEN clear_history(conversation_history)
                   ELSE conversation_history
            /\ prompt' = <<>>
            /\ UNCHANGED <<now, requests, ids, thread_vars>>

\* A caller runs connector.cleanup_expired_sessions().
CleanupExpiredSessions ==
    LET out == cleanup_expired_sessions(sessions, now)
    IN  /\ calls_left > 0
        /\ calls_left' = calls_left - 1
        /\ sessions' = out.sessions
        /\ ret' = out.ret
        /\ op' = [name |-> "cleanup_expired_sessions"]
        /\ steps' = <<>>
        /\ prompt' = <<>>
        /\ UNCHANGED <<now, requests, ids, conversation_history, thread_vars>>

Next ==
    \/ Tick
    \/ ProcessMessage
    \/ GetOrCreateSession
    \/ ClearSession
    \/ CleanupExpiredSessions

Spec == Init /\ [][Next]_vars

SpecTwo == InitTwo /\ [][Next]_vars

\* ----------------------------------------------------------------- threads
\* The methods of the connector run by concurrent threads.  A step is what a
\* thread does between two points where another thread may run: entering a
\* with block (which waits for the lock), the body of a with block up to its
\* exit, an attribute read, an attribute write.  session.warnings += 1 and
\* session.message_count += 1 are a read followed by a write.  The runs are
\* shorter than the session timeout: no session expires in them.

\* with self._lock of the connector's methods: the thread t takes the lock.
connector_lock_enter(lks, t) == [lks EXCEPT !.connector = t]

\* get_or_create_session returning with the connector's lock still held.
connector_lock_exit_keeps(lks, t) == lks

\* The end of the with block of the connector's methods.
connector_lock_exit(lks, t) == [lks EXCEPT !.connector = NoThread]

\* is_allowed running its body without taking the lock.
rate_limiter_lock_enter_skipped(lks, t) == lks

\* with self._lock of RateLimiter.is_allowed: the thread t takes the lock.
rate_limiter_lock_enter(lks, t) == [lks EXCEPT !.rate_limiter = t]

\* The end of the with block of is_allowed (a return inside it included).
rate_limiter_lock_exit(lks, t) == [lks EXCEPT !.rate_limiter = NoThread]

\* The thread t moves to the position pc, its locals changed as in fields.
At(t, pc) == [threads EXCEPT ![t].pc = pc]

\* The thread t returns from the method it runs.
Returned(t) == [threads EXCEPT ![t] = [pc |-> "idle"]]

\* One caller, one session id, two threads.
InitThreads ==
    /\ Constructed
    /\ ids = {"s1"}
    /\ calls_left = MaxCallsThreads

\* Time passes while the threads run.
TickThreads ==
    /\ now < MaxTimeThreads
    /\ now' = now + 1
    /\ UNCHANGED <<sessions, requests, ids, calls_left, op, steps, ret,
                   chat_vars, thread_vars>>

\* An idle thread calls process_message(ChatRequest(sid, message)).
CallProcessMessage ==
    \E t \in Threads, sid \in ids, message \in Messages :
        /\ calls_left > 0
        /\ threads[t].pc = "idle"
        /\ calls_left' = calls_left - 1
        /\ threads' = [threads EXCEPT ![t] =
                          [pc |-> "session", session_id |-> sid,
                           message |-> message, read |-> 0]]
        /\ UNCHANGED <<now, sessions, requests, ids, op, steps, ret,
                       chat_vars, locks, completed>>

\* An idle thread calls clear_session(sid).
CallClearSession ==
    \E t \in Threads, sid \in ids :
        /\ calls_left > 0
        /\ threads[t].pc = "idle"
        /\ calls_left' = calls_left - 1
        /\ threads' = [threads EXCEPT ![t] =
                          [pc |-> "clear", session_id |-> sid]]
        /\ UNCHANGED <<now, sessions, requests, ids, op, steps, ret,
                       chat_vars, locks, completed>>

\* An idle thread calls cleanup_expired_sessions().
CallCleanupExpiredSessions ==
    \E t \in Threads :
        /\ calls_left > 0
        /\ threads[t].pc = "idle"
        /\ calls_left' = calls_left - 1
        /\ threads' = [threads EXCEPT ![t] = [pc |-> "cleanup"]]
        /\ UNCHANGED <<now, sessions, requests, ids, op, steps, ret,
                       chat_vars, locks, completed>>

\* with self._lock: of get_or_create_session, clear_session and
\* cleanup_expired_sessions: the thread waits until the lock is free.
ConnectorLockEnter ==
    \E t \in Threads :
        /\ threads[t].pc \in {"session", "clear", "cleanup"}
        /\ locks.connector = NoThread
        /\ locks' = connector_lock_enter(locks, t)
        /\ threads' = At(t, CASE threads[t].pc = "session" -> "session_locked"
                               [] threads[t].pc = "clear" -> "clear_locked"
                               [] OTHER -> "cleanup_locked")
        /\ UNCHANGED <<now, sessions, requests, ids, calls_left, op, steps, ret,
                       chat_vars, completed>>

\* Stage 1 of process_message: the body of get_or_create_session.
SessionStage ==
    \E t \in Threads :
        LET sid == threads[t].session_id
            out == get_or_create_session(sessions, sid, sid, now)
        IN  /\ threads[t].pc = "session_locked"
            /\ sessions' = out.sessions
            /\ locks' = connector_lock_exit(locks, t)
            /\ threads' = At(t, "block")
            /\ UNCHANGED <<now, requests, ids, calls_left, op, steps, ret,
                           chat_vars, completed>>

\* Stage 2 of process_message: the block check.
BlockStage ==
    \E t \in Threads :
        LET session == sessions[threads[t].session_id] IN
        /\ threads[t].pc = "block"
        /\ threads' = IF session.blocked_until # NoTime
                          /\ now < session.blocked_until
                       THEN Returned(t) ELSE At(t, "rate")
        /\ UNCHANGED <<now, sessions, requests, ids, calls_left, op, steps, ret,
                       chat_vars, locks, completed>>

\* with self._lock: of is_allowed.
RateLimiterLockEnter ==
    \E t \in Threads :
        /\ threads[t].pc = "rate"
        /\ locks.rate_limiter = NoThread
        /\ locks' = rate_limiter_lock_enter(locks, t)
        /\ threads' = At(t, "rate_locked")
        /\ UNCHANGED <<now, sessions, requests, ids, calls_left, op, steps, ret,
                       chat_vars, completed>>

\* is_allowed up to its decision: the list is pruned and counted; a full
\* window returns False (and process_message returns RATE_LIMITED).
RateCheck ==
    \E t \in Threads :
        LET sid == threads[t].session_id
            pruned == InWindow(requests[sid], now)
        IN  /\ threads[t].pc = "rate_locked"
            /\ requests' = [requests EXCEPT ![sid] = pruned]
            /\ IF Len(pruned) >= max_requests
               THEN /\ locks' = rate_limiter_lock_exit(locks, t)
                    /\ threads' = Returned(t)
               ELSE /\ locks' = locks
                    /\ threads' = At(t, "rate_record")
            /\ UNCHANGED <<now, sessions, ids, calls_left, op, steps, ret,
                           chat_vars, completed>>

\* is_allowed recording the request it grants.
RateRecord ==
    \E t \in Threads :
        LET sid == threads[t].session_id IN
        /\ threads[t].pc = "rate_record"
        /\ requests' = [requests EXCEPT ![sid] = Append(@, now)]
        /\ completed' = [completed EXCEPT ![sid].granted = Append(@, now)]
        /\ locks' = rate_limiter_lock_exit(locks, t)
        /\ threads' = At(t, "validate")
        /\ UNCHANGED <<now, sessions, ids, calls_left, op, steps, ret,
                       chat_vars>>

\* Stage 4 of process_message: the validator runs and gives its verdict.
ValidateStage ==
    \E t \in Threads :
        /\ threads[t].pc = "validate"
        /\ threads' = IF validate(threads[t].message).is_valid
                       THEN At(t, "chatbot") ELSE At(t, "warnings_read")
        /\ UNCHANGED <<now, sessions, requests, ids, calls_left, op, steps, ret,
                       chat_vars, locks, completed>>

\* session.warnings += 1, first half: the attribute is read.
WarningsRead ==
    \E t \in Threads :
        /\ threads[t].pc = "warnings_read"
        /\ threads' = [threads EXCEPT
                          ![t].pc = "warnings_write",
                          ![t].read = sessions[threads[t].session_id].warnings]
        /\ UNCHANGED <<now, sessions, requests, ids, calls_left, op, steps, ret,
                       chat_vars, locks, completed>>

\* session.warnings += 1, second half: the sum is written; then the block
\* is set when the warnings have reached max_warnings, and the call returns.
WarningsWrite ==
    \E t \in Threads :
        LET sid == threads[t].session_id
            warned == [sessions EXCEPT ![sid].warnings = threads[t].read + 1]
        IN  /\ threads[t].pc = "warnings_write"
            /\ sessions' = IF warned[sid].warnings >= max_warnings
                            THEN [warned EXCEPT
                                    ![sid].blocked_until = now + BlockDuration]
                            ELSE warned
            /\ completed' = [completed EXCEPT ![sid].rejected = @ + 1]
            /\ threads' = Returned(t)
            /\ UNCHANGED <<now, requests, ids, calls_left, op, steps, ret,
                           chat_vars, locks>>

\* Stage 5 of process_message: the chatbot runs the turn.
ChatbotStage ==
    \E t \in Threads, b \in ChatBehaviours :
        LET sid == threads[t].session_id
            message == validate(threads[t].message).sanitized_input
        IN  /\ threads[t].pc = "chatbot"
            /\ conversation_history' =
                   chat_history(conversation_history, message, b, sid)
            /\ threads' = IF chat(message, b).raised
                           THEN Returned(t) ELSE At(t, "message_count_read")
            /\ UNCHANGED <<now, sessions, requests, ids, calls_left, op, steps,
                           ret, prompt, locks, completed>>

\* session.message_count += 1, first half: the attribute is read.
MessageCountRead ==
    \E t \in Threads :
        /\ threads[t].pc = "message_count_read"
        /\ threads' = [threads EXCEPT
                          ![t].pc = "message_count_write",
                          ![t].read =
                              sessions[threads[t].session_id].message_count]
        /\ UNCHANGED <<now, sessions, requests, ids, calls_left, op, steps, ret,
                       chat_vars, locks, completed>>

\* session.message_count += 1, second half: the sum is written and the call
\* returns its answer.
MessageCountWrite ==
    \E t \in Threads :
        LET sid == threads[t].session_id IN
        /\ threads[t].pc = "message_count_write"
        /\ sessions' = [sessions EXCEPT
                           ![sid].message_count = threads[t].read + 1]
        /\ completed' = [completed EXCEPT ![sid].answered = @ + 1]
        /\ threads' = Returned(t)
        /\ UNCHANGED <<now, requests, ids, calls_left, op, steps, ret,
                       chat_vars, locks>>

\* The body of clear_session, under the connector's lock.
ClearSessionBody ==
    \E t \in Threads :
        LET sid == threads[t].session_id
            out == clear_session(sessions, sid)
        IN  /\ threads[t].pc = "clear_locked"
            /\ sessions' = out.sessions
            /\ conversation_history' =
                   IF out.ret THEN clear_history(conversation_history)
                   ELSE conversation_history
            /\ completed' = IF out.ret
                             THEN [completed EXCEPT ![sid].answered = 0]
                             ELSE completed
            /\ locks' = connector_lock_exit(locks, t)
            /\ threads' = Returned(t)
            /\ UNCHANGED <<now, requests, ids, calls_left, op, steps, ret,
                           prompt>>

\* The body of cleanup_expired_sessions, under the connector's lock.
CleanupBody ==
    \E t \in Threads :
        /\ threads[t].pc = "cleanup_locked"
        /\ sessions' = cleanup_expired_sessions(sessions, now).sessions
        /\ locks' = connector_lock_exit(locks, t)
        /\ threads' = Returned(t)
        /\ UNCHANGED <<now, requests, ids, calls_left, op, steps, ret,
                       chat_vars, completed>>

NextThreads ==
    \/ TickThreads
    \/ CallProcessMessage
    \/ CallClearSession
    \/ CallCleanupExpiredSessions
    \/ ConnectorLockEnter
    \/ SessionStage
    \/ BlockStage
    \/ RateLimiterLockEnter
    \/ RateCheck
    \/ RateRecord
    \/ ValidateStage
    \/ WarningsRead
    \/ WarningsWrite
    \/ ChatbotStage
    \/ MessageCountRead
    \/ MessageCountWrite
    \/ ClearSessionBody
    \/ CleanupBody

SpecThreads == InitThreads /\ [][NextThreads]_vars

\* ------------------------------------------------- the chatbot's functions
\* The state of the connector, which the chatbot's own methods leave alone.
connector_vars ==
    <<now, sessions, requests, ids, conversation_history, prompt, thread_vars>>

\* A chatbot about to run one of its methods on the input op.
BeforeCall(inputs) ==
    /\ now = 0
    /\ sessions = [id \in SessionIds |-> Absent]
    /\ requests = [id \in SessionIds |-> <<>>]
    /\ ids = {}
    /\ calls_left = 1
    /\ op \in inputs
    /\ steps = <<>>
    /\ ret = None
    /\ conversation_history = <<>>
    /\ prompt = <<>>
    /\ threads = [t \in Threads |-> [pc |-> "idle"]]
    /\ locks = [connector |-> NoThread, rate_limiter |-> NoThread]
    /\ completed = [id \in SessionIds |->
                       [rejected |-> 0, answered |-> 0, granted |-> <<>>]]

\* The tool calls a model may return.
ToolCalls ==
    [name : {"_handle_tool_call"}, function_name : FunctionNames,
     arguments : ArgumentTexts, collaborators : Collaborators]

InitTools == BeforeCall(ToolCalls)

\* chat() runs self._handle_tool_call(tool_call).
HandleToolCall ==
    /\ calls_left > 0
    /\ op.name = "_handle_tool_call"
    /\ calls_left' = calls_left - 1
    /\ ret' = handle_tool_call(op.function_name, op.arguments, op.collaborators)
    /\ UNCHANGED <<op, steps, connector_vars>>

SpecTools == InitTools /\ [][HandleToolCall]_vars

\* The ticker hints chat() may have to resolve.
Resolutions ==
    [name : {"_resolve_ticker_name"}, input_text : Hints, db : Lookups,
     llm : Fallbacks]

InitResolve == BeforeCall(Resolutions)

\* chat() runs self._resolve_ticker_name(ticker).
ResolveTickerName ==
    /\ calls_left > 0
    /\ op.name = "_resolve_ticker_name"
    /\ calls_left' = calls_left - 1
    /\ ret' = resolve_ticker_name(op.input_text, op.db, op.llm)
    /\ steps' = strategies_invoked(op.input_text, op.db, op.llm)
    /\ UNCHANGED <<op, connector_vars>>

SpecResolve == InitResolve /\ [][ResolveTickerName]_vars

\* The messages of the turns that end in the report step.
ReportMessages ==
    {<<"AAPL", "TSLA", "Report">>, <<"make", "PDF">>, <<"AAPL", "price">>}

\* The tickers chat() has collected when it reaches the report step.
TurnTickers == {<<>>, <<"AAPL">>, <<"AAPL", "TSLA">>}

\* The histories the chatbot may hold then.
Histories ==
    {<<>>,
     <<[role |-> "user", content |-> <<"compare", "AAPL", "TSLA">>],
       [role |-> "assistant", content |-> <<"answer">>]>>,
     <<[role |-> "user", content |-> <<"the", "car", "maker">>],
       [role |-> "assistant", content |-> <<"TSLA", "answer">>]>>,
     <<[role |-> "user", content |-> <<"hello">>],
       [role |-> "assistant", content |-> <<"answer">>]>>}

\* What the report modules do: the imports, ReportGenerator(), the chart
\* functions, create_pdf.
ReportEnvironments ==
    [imports : {"ok", "raise"}, generator : {"ok", "raise"},
     charts : {"ok", "raise"}, pdf : {"ok", "raise"}]

ReportRequests ==
    [name : {"_process_report_request"}, message : ReportMessages,
     tickers : TurnTickers, hist : Histories, env : ReportEnvironments]

InitReport == BeforeCall(ReportRequests)

\* chat() runs self._process_report_request(message, assistant_message,
\* tickers).
ProcessReportRequest ==
    /\ calls_left > 0
    /\ op.name = "_process_report_request"
    /\ calls_left' = calls_left - 1
    /\ ret' = LET r == _process_report_request(op.message, op.tickers, op.hist,
                                                op.env)
               IN  [report |-> r[1], report_type |-> r[2]]
    /\ UNCHANGED <<op, steps, connector_vars>>

SpecReport == InitReport /\ [][ProcessReportRequest]_vars

\* The messages of the turns: a question, and a request for a report.
TurnMessages == {<<"AAPL", "price">>, <<"make", "PDF">>}

\* The ticker hints of the turns with what their resolution meets: no hint,
\* a ticker the companies table holds, a company name only the model knows.
HintCases ==
    {[ticker |-> <<>>,
      db |-> [exact |-> "none", korean |-> "none", english |-> "none"],
      llm |-> <<"A", "A", "P", "L">>],
     [ticker |-> <<"A", "A", "P", "L">>,
      db |-> [exact |-> "match", korean |-> "none", english |-> "none"],
      llm |-> <<"A", "A", "P", "L">>],
     [ticker |-> <<"A", "p", "p", "l", "e", " ", "I", "n", "c">>,
      db |-> [exact |-> "none", korean |-> "raise", english |-> "none"],
      llm |-> <<" ", "A", "A", "P", "L", " ">>]}

\* One exchange of an earlier turn of the session s1.
Exchange(question, answer) ==
    <<[role |-> "user", content |-> question, session |-> "s1"],
      [role |-> "assistant", content |-> answer, session |-> "s1"]>>

\* The histories a turn starts from: none, one exchange, four exchanges
\* (more than the prompt replays).
TurnHistories ==
    {<<>>,
     Exchange(<<"the", "car", "maker">>, <<"TSLA", "answer">>),
     Exchange(<<"q1">>, <<"a1">>) \o Exchange(<<"q2">>, <<"a2">>)
         \o Exchange(<<"q3", "TSLA">>, <<"a3">>) \o Exchange(<<"q4">>, <<"a4">>)}

\* The contents a model may return: the JSON object asked for, a JSON object
\* without "answer", a text that is no JSON.
RawContents ==
    {"{\"answer\": \"fine\", \"recommendations\": [\"more?\"]}",
     "{\"note\": \"fine\"}", "plain words"}

\* A tool call as the model returns it: its id, its function's name and the
\* text of the arguments.
ToolCall(id, function_name, arguments) ==
    [id |-> id, function_name |-> function_name, arguments |-> arguments]

\* The tool calls a model may return first and second.
FirstToolCalls ==
    {ToolCall("call_1", "get_stock_quote", "{\"ticker\": \"aapl\"}"),
     ToolCall("call_1", "get_stock_candles", "{\"ticker\": \"tsla\"}"),
     ToolCall("call_1", "convert_to_krw", "{\"usd_amount\": 100}"),
     ToolCall("call_1", "get_company_profile", "{\"ticker\": \"nestle\"}"),
     ToolCall("call_1", "get_stock_quote", "{\"ticker\": "),
     ToolCall("call_1", "get_weather", "{}"),
     ToolCall("call_1", "get_price_target", "{\"ticker\": null}")}

SecondToolCalls ==
    {ToolCall("call_2", "get_stock_quote", "{\"ticker\": \"tsla\"}"),
     ToolCall("call_2", "get_stock_candles", "{\"ticker\": \"aapl\"}"),
     ToolCall("call_2", "get_company_news", "{\"ticker\": ")}

\* response.choices[0].message of the first model call, or its exception.
ModelMessage(content, tool_calls) ==
    [kind |-> "message", content |-> content, tool_calls |-> tool_calls]

\* What the model client and the tools' collaborators do in one turn.
ModelCases ==
    {[call1 |-> [kind |-> "raise", content |-> None, tool_calls |-> <<>>],
      c |-> "data", call2 |-> "plain words"]}
    \cup {[call1 |-> ModelMessage(raw, <<>>), c |-> "data",
           call2 |-> "plain words"] : raw \in RawContents}
    \cup {mc \in {[call1 |-> ModelMessage(None, calls), c |-> c,
                    call2 |-> call2] :
                      calls \in {<<t1>> : t1 \in FirstToolCalls}
                                \cup {<<t1, t2>> : t1 \in FirstToolCalls,
                                                   t2 \in SecondToolCalls},
                      c \in {"data", "raise"},
                      call2 \in {"{\"answer\": \"fine\", \"recommendations\": [\"more?\"]}",
                                 "raise"}} :
              mc.c = "data" \/ mc.call2 # "raise"}

\* What the report modules do in one turn: all work, or one of them raises.
TurnEnvironments ==
    {e \in ReportEnvironments :
        /\ e.imports = "ok"
        /\ Cardinality({k \in {"generator", "charts", "pdf"} : e[k] = "raise"}) <= 1}

\* The report modules are not reached by a message without keyword, nor the
\* data sources by a turn without hint or without retrieval.
TurnCases ==
    {t \in {[name |-> "chat", message |-> m, ticker |-> h.ticker,
             use_rag |-> u,
             w |-> [db |-> h.db, llm |-> h.llm, sources |-> s,
                    docs |-> <<"excerpt">>, call1 |-> mc.call1, c |-> mc.c,
                    call2 |-> mc.call2, env |-> e]] :
               m \in TurnMessages, h \in HintCases, u \in BOOLEAN,
               s \in Sources, mc \in ModelCases, e \in TurnEnvironments} :
        /\ (~t.use_rag \/ t.ticker = <<>>) => t.w.sources = "data"
        /\ (~HasReportKeyword(t.message)) =>
               \A k \in {"generator", "charts", "pdf"} : t.w.env[k] = "ok"}

\* A chatbot holding an earlier history, about to run chat().
InitChat ==
    /\ now = 0
    /\ sessions = [id \in SessionIds |-> Absent]
    /\ requests = [id \in SessionIds |-> <<>>]
    /\ ids = {}
    /\ calls_left = 1
    /\ op \in TurnCases
    /\ steps = <<>>
    /\ ret = None
    /\ conversation_history \in TurnHistories
    /\ prompt = <<>>
    /\ threads = [t \in Threads |-> [pc |-> "idle"]]
    /\ locks = [connector |-> NoThread, rate_limiter |-> NoThread]
    /\ completed = [id \in SessionIds |->
                       [rejected |-> 0, answered |-> 0, granted |-> <<>>]]

\* The connector runs chatbot.chat(message, ticker, use_rag) for session s1.
Chat ==
    /\ calls_left > 0
    /\ op.name = "chat"
    /\ calls_left' = calls_left - 1
    /\ LET out == chat_turn(op.message, op.ticker, op.use_rag,
                            conversation_history, op.w, "s1")
       IN  /\ ret' = out
           /\ conversation_history' = out.history
           /\ prompt' = IF out.completions # <<>>
                         THEN out.completions[1].messages ELSE <<>>
    /\ UNCHANGED <<op, steps, now, sessions, requests, ids, thread_vars>>

SpecChat == InitChat /\ [][Chat]_vars


\* ------------------------------------------------------------ properties

\* The order the specification gives the stages of process_message.
StrictOrder == <<"session", "block", "rate", "validate", "chatbot">>

\* The last call made was process_message.
Processed == op.name = "process_message"

\* This step is a call of process_message for the session id sid.
Processing(sid) ==
    /\ calls_left' = calls_left - 1
    /\ op'.name = "process_message"
    /\ op'.session_id = sid

\* The session stage 1 of process_message hands to the later stages for
\* the id sid: the stored one when it is present and has not expired, a
\* new one otherwise.
Resolved(sid) ==
    IF sessions[sid] = Absent \/ now - sessions[sid].last_activity > session_timeout
    THEN [last_activity |-> now, message_count |-> 0, blocked_until |-> NoTime,
          context |-> EmptyDict, warnings |-> 0]
    ELSE [sessions[sid] EXCEPT !.last_activity = now]

\* The session is blocked: blocked_until is set and in the future.
IsBlocked(s) == s.blocked_until # NoTime /\ now < s.blocked_until

\* The timestamps recorded for sid that lie in the current window.
Recent(sid) ==
    {i \in 1..Len(requests[sid]) : now - requests[sid][i] < window_seconds}

\* seq ends with the n last elements of old, in the same order.
EndsWithLast(seq, old, n, from) ==
    \A i \in 1..n : seq[from + i] = old[Len(old) - n + i]

\* C1: process_message runs its stages in the strict order session, block
\* check, rate check, validation, chatbot: a request answered SESSION_BLOCKED,
\* RATE_LIMITED, INPUT_REJECTED or SESSION_BLOCKED_SECURITY never reached the
\* chatbot, and one answered SESSION_BLOCKED or RATE_LIMITED never reached
\* the validator.
T_C1_StrictOrder ==
    Processed =>
        /\ steps = SubSeq(StrictOrder, 1, Len(steps))
        /\ (ret.error_code \in {"SESSION_BLOCKED", "RATE_LIMITED", "INPUT_REJECTED",
                                "SESSION_BLOCKED_SECURITY"})
               => "chatbot" \notin Range(steps)
        /\ (ret.error_code \in {"SESSION_BLOCKED", "RATE_LIMITED"})
               => "validate" \notin Range(steps)
        /\ (ret.error_code = "RATE_LIMITED") => "rate" \in Range(steps)
        /\ (ret.error_code \in {"INPUT_REJECTED", "SESSION_BLOCKED_SECURITY"})
               => "validate" \in Range(steps)
        /\ (ret.success \/ ret.error_code = "PROCESSING_ERROR")
               => steps = StrictOrder

\* A rate-limited request that stopped at the rate check.
W_C1_RateLimited ==
    /\ Processed
    /\ ret.error_code = "RATE_LIMITED"
    /\ steps = <<"session", "block", "rate">>

\* The validator rejects the message of this call, and the call reached it.
Rejecting ==
    /\ "validate" \in Range(steps')
    /\ ~validate(op'.message).is_valid

T_C3_RateWindow ==
    [][\A sid \in ids :
        (Processing(sid) /\ "rate" \in Range(steps')) =>
            LET old == requests[sid]
                new == requests'[sid]
                n == Cardinality(Recent(sid))
                denied == ret'.error_code = "RATE_LIMITED"
            IN  /\ denied <=> (n >= max_requests)
                /\ denied => /\ Len(new) = n
                             /\ EndsWithLast(new, old, n, 0)
                /\ (~denied) => /\ Len(new) = n + 1
                                /\ new[n + 1] = now
                                /\ EndsWithLast(new, old, n, 0)
                /\ \A other \in SessionIds \ {sid} :
                       requests'[other] = requests[other]]_vars

\* A denied request, with the window holding max_requests timestamps recorded
\* at two different times.
W_C3_Denied ==
    /\ Processed
    /\ ret.error_code = "RATE_LIMITED"
    /\ Len(requests[op.session_id]) = max_requests
    /\ requests[op.session_id][1] < requests[op.session_id][max_requests]

\* The model client raises during the chat turn (first call, tool calls or
\* second call), the chatbot itself being loaded.
ModelClientRaises(b) == b.load = "ok" /\ b.raises

\* The text of content embeds the text exc.
Embeds(content, exc) ==
    \E i \in 0..Len(content) :
        i + Len(exc) <= Len(content) /\ SubSeq(content, i + 1, i + Len(exc)) = exc

\* C4: when the model client raises at any step of the orchestration,
\* process_message answers success = false, PROCESSING_ERROR, a content
\* embedding the exception text, and no report.
CE_C4_ModelClientRaises ==
    [][\A sid \in ids, b \in ChatBehaviours :
        (/\ ProcessMessageAs(sid, "question", b)
         /\ "chatbot" \in Range(steps')
         /\ ModelClientRaises(b))
            => /\ ret'.success = FALSE
               /\ ret'.error_code = "PROCESSING_ERROR"
               /\ Embeds(ret'.content, b.exc)
               /\ ret'.report = None]_vars

\* C5: message_count grows by exactly one in a call whose orchestration
\* succeeded and is left unchanged by every other call (blocked,
\* rate-limited, rejected, or failed in the orchestration).
CE_C5_CountsSuccessesOnly ==
    [][\A sid \in ids, m \in Messages, b \in ChatBehaviours :
        ProcessMessageAs(sid, m, b) =>
            sessions'[sid].message_count =
                Resolved(sid).message_count
                + (IF "chatbot" \in Range(steps') /\ ~b.raises THEN 1 ELSE 0)]_vars

\* C6: every response with success = false has a non-empty content, an
\* error code and no report.
T_C6_ErrorResponse ==
    (Processed /\ ~ret.success) =>
        /\ ret.content # <<>>
        /\ \A i \in 1..Len(ret.content) : ret.content[i] # ""
        /\ ret.error_code \in {"SESSION_BLOCKED", "RATE_LIMITED", "INPUT_REJECTED",
                               "SESSION_BLOCKED_SECURITY", "PROCESSING_ERROR"}
        /\ ret.report = None

\* A PROCESSING_ERROR for an exception that carries no text.
W_C6_ProcessingErrorNoText ==
    /\ Processed
    /\ ret.error_code = "PROCESSING_ERROR"
    /\ ret.content = <<"processing error: ">>

T_C8_BlockedShortCircuit ==
    [][\A sid \in ids :
        (Processing(sid) /\ IsBlocked(Resolved(sid))) =>
            /\ ret'.error_code = "SESSION_BLOCKED"
            /\ ~ret'.success
            /\ steps' = <<"session", "block">>
            /\ requests' = requests
            /\ sessions'[sid] = [sessions[sid] EXCEPT !.last_activity = now]]_vars

\* An invalid message refused on a blocked session: it adds no warning and
\* no timestamp.
W_C8_InvalidMessageRefused ==
    /\ Processed
    /\ ret.error_code = "SESSION_BLOCKED"
    /\ op.message = "injection"
    /\ sessions[op.session_id].warnings = max_warnings
    /\ Len(requests[op.session_id]) > 0
    /\ now > requests[op.session_id][Len(requests[op.session_id])]

\* C9: a call on a session that is not blocked and whose window holds
\* max_requests timestamps answers RATE_LIMITED and leaves the session's
\* warnings, blocked_until and message_count as they were.
T_C9_RateLimitedNoWarning ==
    [][\A sid \in ids :
        (/\ Processing(sid)
         /\ ~IsBlocked(Resolved(sid))
         /\ Cardinality(Recent(sid)) >= max_requests)
            => /\ ~ret'.success
               /\ ret'.error_code = "RATE_LIMITED"
               /\ sessions'[sid].warnings = Resolved(sid).warnings
               /\ sessions'[sid].blocked_until = Resolved(sid).blocked_until
               /\ sessions'[sid].message_count = Resolved(sid).message_count]_vars

\* A rate-limited request on a session that already carries a warning.
W_C9_RateLimitedWarned ==
    /\ Processed
    /\ ret.error_code = "RATE_LIMITED"
    /\ sessions[op.session_id].warnings > 0
    /\ sessions[op.session_id].message_count > 0

\* C10: get_or_create_session with the id of a stored session replaces it by
\* a new session (message_count 0, warnings 0, no block) when it has expired,
\* and otherwise returns it as it is with last_activity refreshed.
T_C10_Expiry ==
    [][\A sid \in ids :
        (/\ calls_left' = calls_left - 1
         /\ op'.name = "get_or_create_session"
         /\ op'.session_id = sid
         /\ sessions[sid] # Absent)
            => /\ ret' = sid
               /\ IF now - sessions[sid].last_activity > session_timeout
                  THEN /\ sessions'[sid] =
                            [last_activity |-> now, message_count |-> 0,
                             blocked_until |-> NoTime, context |-> EmptyDict,
                             warnings |-> 0]
                       /\ "Session expired" \in Range(steps')
                  ELSE /\ sessions'[sid] =
                            [sessions[sid] EXCEPT !.last_activity = now]
                       /\ steps' = <<>>]_vars

\* An expired session replaced by get_or_create_session.
W_C10_Replaced ==
    /\ op.name = "get_or_create_session"
    /\ steps = <<"Session expired", "New session created">>
    /\ ret = op.session_id
    /\ sessions[ret].last_activity = now
    /\ sessions[ret].message_count = 0

\* This step is a call of clear_session for the session id sid.
Clearing(sid) ==
    /\ calls_left' = calls_left - 1
    /\ op'.name = "clear_session"
    /\ op'.session_id = sid

\* C11: clear_session on a stored session sets its message_count to 0 and
\* its context to empty, keeps its warnings, blocked_until and last_activity,
\* and returns true; on an unknown id it returns false; in both cases no
\* other session and no rate window changes.
T_C11_ClearSession ==
    [][\A sid \in ids :
        Clearing(sid) =>
            /\ IF sessions[sid] # Absent
               THEN /\ ret' = TRUE
                    /\ sessions'[sid] # Absent
                    /\ sessions'[sid].message_count = 0
                    /\ sessions'[sid].context = EmptyDict
                    /\ sessions'[sid].warnings = sessions[sid].warnings
                    /\ sessions'[sid].blocked_until = sessions[sid].blocked_until
                    /\ sessions'[sid].last_activity = sessions[sid].last_activity
               ELSE /\ ret' = FALSE
                    /\ sessions'[sid] = Absent
            /\ \A other \in SessionIds \ {sid} : sessions'[other] = sessions[other]
            /\ requests' = requests]_vars

\* A blocked session cleared: it is still blocked, with all its warnings.
W_C11_BlockedCleared ==
    /\ op.name = "clear_session"
    /\ ret = TRUE
    /\ sessions[op.session_id].warnings = max_warnings
    /\ IsBlocked(sessions[op.session_id])
    /\ sessions[op.session_id].message_count = 0

\* The stored sessions idle for longer than the session timeout.
ExpiredIds ==
    {id \in SessionIds :
        sessions[id] # Absent /\ now - sessions[id].last_activity > session_timeout}

\* C12: cleanup_expired_sessions removes exactly the stored sessions with
\* now - last_activity > session_timeout, returns how many they are, and
\* leaves every other session as it is.
T_C12_Cleanup ==
    [][(calls_left' = calls_left - 1 /\ op'.name = "cleanup_expired_sessions") =>
          /\ ret' = Cardinality(ExpiredIds)
          /\ \A id \in SessionIds :
                 sessions'[id] = IF id \in ExpiredIds THEN Absent ELSE sessions[id]]_vars

\* A sweep that removed one session and kept another, idle for exactly the
\* timeout.
W_C12_OneRemovedOneKept ==
    /\ op.name = "cleanup_expired_sessions"
    /\ ret = 1
    /\ \E id \in SessionIds :
           /\ sessions[id] # Absent
           /\ now - sessions[id].last_activity = session_timeout

\* The turns of hist that do not belong to the session sid.
TurnsOfOthers(hist, sid) == SelectSeq(hist, LAMBDA turn : turn.session # sid)

\* C20: the conversation history belongs to one session: the prompt built
\* for a session holds, besides the system prompt, only turns of that
\* session, and clear_session removes no turn of another session.
CE_C20_HistoryPerSession ==
    [][/\ \A i \in 1..Len(prompt') :
              prompt'[i].session \in {NoId, op'.session_id}
       /\ \A sid \in ids :
              Clearing(sid) =>
                  TurnsOfOthers(conversation_history', sid)
                      = TurnsOfOthers(conversation_history, sid)]_vars

\* The last call made was _handle_tool_call, and it is over.
ToolCallDone == op.name = "_handle_tool_call" /\ calls_left = 0

\* The tool call gives no value for an argument its schema requires.
MissingRequired ==
    /\ ~json_loads(op.arguments).raised
    /\ ~(Required(op.function_name) \subseteq DOMAIN json_loads(op.arguments).value)

\* A collaborator raised during the tool call.
CollaboratorRaised ==
    op.collaborators = "raise" /\ ~ret.raised /\ ret.called # {}

\* result is json.dumps({"error": reason}) for some reason.
IsJsonError(result) == result.kind = "json" /\ "error" \in DOMAIN result

\* C16: whatever the tool and its argument text, _handle_tool_call raises
\* nothing, and a collaborator's exception or a missing required argument
\* yields the JSON error object.
CE_C16_ToolErrorsAbsorbed ==
    ToolCallDone =>
        /\ ~ret.raised
        /\ (~ret.raised /\ (CollaboratorRaised \/ MissingRequired))
               => IsJsonError(ret.result)

NoDatabaseMatch ==
    op.db.exact # "match" /\ op.db.korean # "match" /\ op.db.english # "match"

\* The format heuristic of the specification: a short token of capital
\* letters only.
ShortAllCaps(text) ==
    Len(text) <= 5 /\ \A i \in 1..Len(text) : text[i] \in CapitalLetters

\* C19: a hint that no lookup finds and that is no short all-caps token is
\* resolved by the model: the answer of the fallback is what
\* _resolve_ticker_name returns ("Apple", answered "AAPL", gives "AAPL").
CE_C19_FallbackAnswer ==
    (/\ op.name = "_resolve_ticker_name"
     /\ calls_left = 0
     /\ op.input_text # <<>>
     /\ NoDatabaseMatch
     /\ ~ShortAllCaps(op.input_text)
     /\ op.llm # <<"raise">>)
        => ret = SomeText(strip(op.llm))

\* The tickers the report step targets: those of the turn, or else the
\* tickers the latest telling turn of the history names.
Targeted ==
    IF op.tickers # <<>> THEN op.tickers
    ELSE IF from_history(op.hist, "user") # None
         THEN <<from_history(op.hist, "user")>>
    ELSE IF from_history(op.hist, "assistant") # None
         THEN <<from_history(op.hist, "assistant")>>
    ELSE <<>>

\* C18: a message with a report keyword and at least one target ticker gets
\* a report: the response carries a non-null report of type "pdf", or "md"
\* when the PDF generation failed.
CE_C18_ReportProduced ==
    (/\ op.name = "_process_report_request"
     /\ calls_left = 0
     /\ HasReportKeyword(op.message)
     /\ Targeted # <<>>
     /\ op.env.imports = "ok"
     /\ op.env.generator = "ok")
        => /\ ret.report # None
           /\ ret.report_type = IF op.env.pdf = "raise" THEN "md" ELSE "pdf"

\* No thread is inside a method.
AllReturned == \A t \in Threads : threads[t].pc = "idle"

\* C13: no update of a session counter is lost: once the calls have
\* returned, the session's warnings are the number of calls that failed
\* validation, and its message_count is the number of calls answered since
\* it was last cleared.
CE_C13_NoLostUpdate ==
    AllReturned =>
        \A sid \in ids :
            sessions[sid] # Absent =>
                /\ sessions[sid].warnings = completed[sid].rejected
                /\ sessions[sid].message_count = completed[sid].answered

\* The positions where the validator or the chatbot is running.
SlowStages == {"validate", "chatbot"}

\* C14: a thread holds the connector's lock only inside the body of
\* get_or_create_session, clear_session or cleanup_expired_sessions, and the
\* rate limiter's lock only inside the body of is_allowed: while the
\* validator or the chatbot runs for a thread, that thread holds no lock, so
\* a lock another thread waits for is free or held by a thread inside one of
\* those bodies.
T_C14_NoLockAcrossSlowCalls ==
    \A t \in Threads :
        /\ (locks.connector = t) =>
               threads[t].pc \in {"session_locked", "clear_locked", "cleanup_locked"}
        /\ (locks.rate_limiter = t) =>
               threads[t].pc \in {"rate_locked", "rate_record"}
        /\ (threads[t].pc \in SlowStages) =>
               /\ locks.connector # t
               /\ locks.rate_limiter # t
               /\ \A u \in Threads \ {t} :
                      /\ (threads[u].pc \in {"session", "clear", "cleanup"})
                             => locks.connector = NoThread
                      /\ (threads[u].pc = "rate") => locks.rate_limiter = NoThread

\* A thread is inside clear_session, holding the connector's lock, while the
\* chatbot runs for the other thread.
W_C14_ClearedDuringModelCall ==
    \E t, u \in Threads :
        /\ threads[t].pc = "chatbot"
        /\ threads[u].pc = "clear_locked"
        /\ locks.connector = u

\* The times of grants that lie in the window ending at the time end.
GrantsInWindow(granted, end) ==
    {j \in 1..Len(granted) :
        granted[j] > end - window_seconds /\ granted[j] <= end}

\* C15: whatever the interleaving of the calls of is_allowed for a session
\* id, its recorded list never holds more than max_requests timestamps and
\* no window holds more than max_requests granted requests.
T_C15_AtomicWindow ==
    \A sid \in SessionIds :
        /\ Len(requests[sid]) <= max_requests
        /\ \A i \in 1..Len(completed[sid].granted) :
               Cardinality(GrantsInWindow(completed[sid].granted,
                                          completed[sid].granted[i]))
                   <= max_requests

\* Two threads in is_allowed for the same session with one place left in
\* the window: one is about to record its request, the other waits for the
\* lock.
W_C15_RaceForLastPlace ==
    \E t, u \in Threads :
        /\ threads[t].pc = "rate_record"
        /\ locks.rate_limiter = t
        /\ threads[u].pc = "rate"
        /\ threads[u].session_id = threads[t].session_id
        /\ Len(requests[threads[t].session_id]) = max_requests - 1

\* The last call made was chat(), and it has returned.
TurnDone == op.name = "chat" /\ calls_left = 0

\* The tool calls the first model call of the turn returned.
ReturnedToolCalls ==
    IF op.w.call1.kind = "message" THEN op.w.call1.tool_calls ELSE <<>>

\* C21: when the first model call returns the tool calls t1..tn, the
\* messages submitted to the second model call are those of the first call,
\* then the assistant message carrying the tool calls, then exactly n tool
\* messages in the order of the calls, the i-th tagged with the id and the
\* name of ti and carrying the result of ti.
T_C21_ToolResultsTagged ==
    (TurnDone /\ ReturnedToolCalls # <<>> /\ Len(ret.completions) >= 2) =>
        LET first == ret.completions[1].messages
            second == ret.completions[2].messages
            n == Len(ReturnedToolCalls)
        IN  /\ Len(second) = Len(first) + 1 + n
            /\ SubSeq(second, 1, Len(first)) = first
            /\ second[Len(first) + 1].role = "assistant"
            /\ second[Len(first) + 1].tool_calls = ReturnedToolCalls
            /\ \A i \in 1..n :
                  LET ti == ReturnedToolCalls[i]
                      m == second[Len(first) + 1 + i]
                  IN  /\ m.role = "tool"
                      /\ m.tool_call_id = ti.id
                      /\ m.name = ti.function_name
                      /\ m.content = handle_tool_call(ti.function_name,
                                         ti.arguments, op.w.c).result

\* A turn whose first model call returned two tool calls, both executed with
\* different results, and whose second model call was made.
W_C21_TwoToolCalls ==
    /\ TurnDone
    /\ Len(ReturnedToolCalls) = 2
    /\ Len(ret.completions) = 2
    /\ LET second == ret.completions[2].messages
       IN  second[Len(second)].content # second[Len(second) - 1].content

\* The ids of the tool calls the first model call returned, in their order.
ReturnedIds == [i \in 1..Len(ReturnedToolCalls) |-> ReturnedToolCalls[i].id]

\* C22: the first model call carries the full tool registry with automatic
\* tool choice; when it returns no tool call it is the only model call and
\* its content is the raw answer; when it returns tool calls every one of
\* them is executed and then exactly one second call is made, without tools,
\* whose content is the raw answer.
CE_C22_ToolBranch ==
    (TurnDone /\ ret.completions # <<>> /\ op.w.call1.kind = "message") =>
        /\ ret.completions[1].tools = ToolRegistry
        /\ ret.completions[1].tool_choice = "auto"
        /\ IF ReturnedToolCalls = <<>>
           THEN /\ Len(ret.completions) = 1
                /\ ret.executed = <<>>
                /\ ret.result.content =
                       extract_answer(op.w.call1.content).assistant_message
           ELSE /\ ret.executed = ReturnedIds
                /\ Len(ret.completions) = 2
                /\ ret.completions[2].tools = {}
                /\ (op.w.call2 # "raise") =>
                       ret.result.content =
                           extract_answer(op.w.call2).assistant_message

\* This step is a call of chat().
Chatting == op.name = "chat" /\ calls_left = 1 /\ calls_left' = 0

\* The raw content chat() extracts the answer of the turn from.
RawAnswer ==
    IF ReturnedToolCalls = <<>> THEN op.w.call1.content ELSE op.w.call2

SentContent == prompt[Len(prompt)].content

\* C24: with retrieval enabled the context of the user's turn is never
\* empty, and when no ticker was resolved it comes from an unscoped search of
\* the document store (or is the placeholder).
CE_C24_UnscopedSearch ==
    (TurnDone /\ op.use_rag /\ prompt # <<>>) =>
        /\ SentContent # op.message
        /\ SentContent[1] = "[context]"
        /\ (op.ticker = <<>>) => ret.searched

\* The order the specification gives the strategies of the resolution.
StrategyOrder == <<"exact", "korean", "english", "heuristic", "llm">>

\* The last call made was _resolve_ticker_name, and it has returned.
ResolutionDone == op.name = "_resolve_ticker_name" /\ calls_left = 0

\* The strategy yields a result for the hint of the call: a lookup finds a
\* row (one that raises finds none), the format test accepts the hint, the
\* model call always gives an answer.
Yields(strategy) ==
    CASE strategy = "exact" -> op.db.exact = "match"
      [] strategy = "korean" -> op.db.korean = "match"
      [] strategy = "english" -> op.db.english = "match"
      [] strategy = "heuristic" ->
             /\ \A i \in 1..Len(op.input_text) : op.input_text[i] \in AsciiCharacters
             /\ Len(op.input_text) <= 5
             /\ \A i \in 1..Len(op.input_text) : op.input_text[i] # " "
      [] OTHER -> TRUE

\* C25: _resolve_ticker_name tries exact lookup, localized-name lookup,
\* English-name lookup, format heuristic and LLM fallback in this order; the
\* first strategy that yields a result is the last one invoked and decides
\* the value returned; a lookup that raises counts as no match and the next
\* strategy is tried.
T_C25_FirstStrategyWins ==
    (ResolutionDone /\ op.input_text # <<>>) =>
        LET n == Len(steps) IN
        /\ n >= 1
        /\ steps = SubSeq(StrategyOrder, 1, n)
        /\ Yields(steps[n])
        /\ \A i \in 1..(n - 1) : ~Yields(steps[i])
        /\ ~ret.is_none
        /\ (steps[n] \in {"korean", "english"}) => ret.text = RowTicker
        /\ (steps[n] = "llm" /\ op.llm = <<"raise">>) => ret.text = op.input_text
        /\ (steps[n] = "llm" /\ op.llm # <<"raise">>) =>
               ret.text = <<"A", "A", "P", "L">>

\* A resolution whose exact lookup raised and whose localized-name lookup
\* found the row: two strategies invoked, the second decided.
W_C25_RaiseThenMatch ==
    /\ ResolutionDone
    /\ op.db.exact = "raise"
    /\ steps = <<"exact", "korean">>
    /\ ret.text = RowTicker

\* C26: a tool handler calls its external collaborator exactly once per
\* invocation of _handle_tool_call: never a second collaborator call, and
\* one call whenever the collaborator is there and the tool call carries its
\* required arguments.
CE_C26_OneCollaboratorCall ==
    (ToolCallDone /\ op.function_name \in ToolRegistry /\ ~ret.raised) =>
        /\ Cardinality(ret.called) <= 1
        /\ (op.collaborators # "unavailable" /\ ~MissingRequired)
               => Cardinality(ret.called) = 1

\* The turn asked for a report on a ticker it surfaced, and the chart
\* functions or create_pdf raised while the report generator worked.
ReportStepFailed ==
    /\ HasReportKeyword(op.message)
    /\ ret.tickers # <<>>
    /\ op.w.env.generator = "ok"
    /\ op.w.env.charts = "raise" \/ op.w.env.pdf = "raise"

\* C27: a failure in report or chart generation does not abort the turn:
\* chat() returns the model's answer as content, appends the turn to the
\* history, and returns the raw markdown as the report, with report_type
\* "md", instead of a binary document.
CE_C27_ReportDegrades ==
    (TurnDone /\ ~ret.caught /\ ReportStepFailed) =>
        /\ ret.result.content = extract_answer(RawAnswer).assistant_message
        /\ conversation_history[Len(conversation_history)].content =
               ret.result.content
        /\ conversation_history[Len(conversation_history) - 1].content =
               op.message
        /\ ret.result.report_type = "md"
        /\ ret.result.report # None

\* This step replaces the session stored for sid by a new one: a call of
\* get_or_create_session (alone or from process_message) finds it expired.
Replaced(sid) ==
    /\ calls_left' = calls_left - 1
    /\ op'.name \in {"process_message", "get_or_create_session"}
    /\ op'.session_id = sid
    /\ Expired(sessions[sid], now)

\* C28: while a session exists its warnings never decrease, whatever the
\* operation; and a session that was blocked once and whose block has
\* elapsed is blocked again (SESSION_BLOCKED_SECURITY) by the first message
\* that fails validation.
T_C28_WarningsKept ==
    [][\A sid \in SessionIds :
        (sessions[sid] # Absent /\ sessions'[sid] # Absent /\ ~Replaced(sid)) =>
            /\ sessions'[sid].warnings >= sessions[sid].warnings
            /\ (/\ Processing(sid)
                /\ sessions[sid].blocked_until # NoTime
                /\ sessions[sid].warnings >= max_warnings
                /\ ~IsBlocked(sessions[sid])
                /\ "validate" \in Range(steps')
                /\ ~validate(op'.message).is_valid)
                   => /\ ret'.error_code = "SESSION_BLOCKED_SECURITY"
                      /\ sessions'[sid].blocked_until = now + BlockDuration
                      /\ sessions'[sid].warnings = sessions[sid].warnings + 1
    ]_vars

\* A session blocked a second time: one more rejected message after the
\* first block elapsed.
W_C28_BlockedAgain ==
    /\ Processed
    /\ ret.error_code = "SESSION_BLOCKED_SECURITY"
    /\ sessions["s1"].warnings = max_warnings + 1

\* C29: a request rejected by the validator (INPUT_REJECTED or
\* SESSION_BLOCKED_SECURITY) has been recorded in the rate window of its
\* session; one refused with SESSION_BLOCKED has not, and the window is as it
\* was; the window gets the request's timestamp exactly when the request
\* passed the block check and the rate check.
T_C29_RejectedRequestsCount ==
    [][\A sid \in SessionIds : Processing(sid) =>
        LET code == ret'.error_code
            recorded == Append(InWindow(requests[sid], now), now)
        IN  /\ (code \in {"INPUT_REJECTED", "SESSION_BLOCKED_SECURITY"})
                   => requests'[sid] = recorded
            /\ (code = "SESSION_BLOCKED") => requests'[sid] = requests[sid]
            /\ (code = "RATE_LIMITED")
                   => requests'[sid] = InWindow(requests[sid], now)
            /\ (requests'[sid] = recorded)
                   <=> (code \notin {"SESSION_BLOCKED", "RATE_LIMITED"})
            /\ (requests'[sid] = recorded) <=> ("validate" \in Range(steps'))
            /\ \A other \in SessionIds \ {sid} :
                   requests'[other] = requests[other]
    ]_vars

\* A session that never got an answer is refused for its rate: its
\* rejected messages alone filled the window.
W_C29_QuotaSpentOnRejections ==
    /\ Processed
    /\ ret.error_code = "RATE_LIMITED"
    /\ sessions["s1"].message_count = 0
    /\ sessions["s1"].warnings = max_requests

\* The tickers the tool calls of the turn supply, in the order of the calls:
\* the upper-cased ticker argument of each call whose arguments have one of
\* at most 5 characters.
RECURSIVE SuppliedTickers(_)
SuppliedTickers(tool_calls) ==
    IF tool_calls = <<>> THEN <<>>
    ELSE LET args == json_loads(Head(tool_calls).arguments)
             rest == SuppliedTickers(Tail(tool_calls))
         IN  IF /\ ~args.raised
                /\ "ticker" \in DOMAIN args.value
                /\ args.value.ticker # None
                /\ Len(Chars[args.value.ticker]) <= 5
             THEN <<upper(Chars[args.value.ticker])>> \o rest
             ELSE rest

\* C30: the tickers list of a turn holds at most one symbol: the resolved
\* hint when the request has one, or else the ticker of the first tool call
\* that supplies one of at most 5 characters; the tickers of later tool
\* calls are not adopted.
T_C30_AtMostOneTicker ==
    (TurnDone /\ ~ret.caught) =>
        /\ Len(ret.tickers) <= 1
        /\ ret.result.tickers = ret.tickers
        /\ (op.ticker # <<>>) =>
               /\ Len(ret.tickers) = 1
               /\ ret.tickers[1] \in {<<"A", "A", "P", "L">>, op.ticker}
        /\ (op.ticker = <<>>) =>
               ret.tickers =
                   IF SuppliedTickers(ReturnedToolCalls) = <<>> THEN <<>>
                   ELSE <<SuppliedTickers(ReturnedToolCalls)[1]>>

\* A turn without hint whose two tool calls both supplied a ticker: the
\* first one was adopted, the second was not.
W_C30_SecondTickerNotAdopted ==
    /\ TurnDone
    /\ ~ret.caught
    /\ op.ticker = <<>>
    /\ Len(SuppliedTickers(ReturnedToolCalls)) = 2
    /\ SuppliedTickers(ReturnedToolCalls)[1] # SuppliedTickers(ReturnedToolCalls)[2]
    /\ ret.tickers = <<SuppliedTickers(ReturnedToolCalls)[1]>>

====
